---------------------------- MODULE Spec2Model ----------------------------
(***************************************************************************)
(* A model of the WebAssembly emission back-end of the sourceror compiler: *)
(* the LEB128 encoder, the container (slice, str) serializers and the      *)
(* module serializer of lib-wasmgen/src/serialize.rs, together with the    *)
(* one-section serializer of the root crate (src/wasmgen/mod.rs).          *)
(* It also holds the unreachable-code pass of lib-ir (opt/unreachable.rs), *)
(* the pool of scratch locals (lib-wasmgen/src/scratch.rs) and the entry   *)
(* points of source-compiler (compile and main), each with a              *)
(* specification of its own: SpecPure, Spec, SpecOpt, SpecScratch,         *)
(* SpecPipe.                                                               *)
(*                                                                         *)
(* Integers of the program are modelled as bit vectors (a sequence of 0/1, *)
(* least significant bit first, of the width of the Rust type), so that    *)
(* u32, u64, i32 and i64 keep their width and their shifts.                *)
(***************************************************************************)
EXTENDS Integers, Sequences, FiniteSets

VARIABLES
    call,       \* the pure serializer being applied and its argument
    ret,        \* what that call wrote into its (fresh) receiver
    module,     \* the WasmModule handed to wasm_serialize
    receiver,   \* the receiver: a Vec<u8>, new and empty at the call
    status,     \* "idle", "done" (wasm_serialize returned) or "panic"
    previous,   \* what earlier runs on the same module ended with
    program,    \* the IR program given to the unreachable-code pass
    passes,     \* what each pass of optimize returned: (program, changed)
    scratch,    \* a Scratch: its LocalsManager, four buffers and four counters
    calls,      \* the push_<t> / pop_<t> calls made on it, with what they returned
    scope,      \* "open", "panic" (an assertion failed) or "dropped"
    entry,      \* the entry point that runs: "compile" (the library) or "main"
    pc,         \* how far the entry point has come
    ran,        \* the stages that ran so far, with how each ended
    result      \* what came out: the bytes returned, out.wasm, the exit code

pureVars == <<call, ret>>
serVars == <<module, receiver, status, previous>>
optVars == <<program, passes>>
scratchVars == <<scratch, calls, scope>>
pipeVars == <<entry, pc, ran, result>>
otherVars == <<optVars, scratchVars, pipeVars>>
vars == <<call, ret, module, receiver, status, previous, program, passes,
          scratch, calls, scope, entry, pc, ran, result>>

---------------------------------------------------------------------------
(* Bounds of the model.                                                    *)

\* Integers -MaxSmall..MaxSmall are all given to the LEB encoders.
MaxSmall == 300
\* Vectors and strings of every content up to this length are serialized.
MaxLen == 3
\* A module is serialized at most this many times.
MaxRuns == 2
\* Sequences of the IR have up to this many elements.
MaxSeq == 3
\* The unreachable-code pass is run at most this many times on a program.
MaxPasses == 2
\* Up to this many push_<t> / pop_<t> calls are made on a Scratch.
MaxCalls == 4

---------------------------------------------------------------------------
(* Fixed-width integers as bit vectors.                                    *)

Bit == {0, 1}

\* The two's complement bits of the integer v (-2^31 <= v < 2^31) at width
\* w >= 32: bit i-1 is floor(v / 2^(i-1)) mod 2, and the sign above bit 30.
BitsOf(v, w) ==
    [i \in 1..w |-> IF i <= 31 THEN (v \div (2^(i-1))) % 2
                    ELSE IF v < 0 THEN 1 ELSE 0]

\* `(x & 127) as u8`
Low7(x) ==
    x[1] + 2*x[2] + 4*x[3] + 8*x[4] + 16*x[5] + 32*x[6] + 64*x[7]

\* `x >>= 7` on an unsigned integer: zeros come in at the top.
ShrLogical7(x) ==
    SubSeq(x, 8, Len(x)) \o <<0, 0, 0, 0, 0, 0, 0>>

\* `x >>= 7` on a signed integer: the sign bit comes in at the top.
ShrArith7(x) ==
    LET s == x[Len(x)]
    IN  SubSeq(x, 8, Len(x)) \o <<s, s, s, s, s, s, s>>

\* `x != 0` is ~IsZero(x); `x != -1` is ~IsMinusOne(x).
IsZero(x) == \A i \in 1..Len(x) : x[i] = 0
IsMinusOne(x) == \A i \in 1..Len(x) : x[i] = 1

\* `b & 64u8 != 0`
Bit6Set(b) == (b \div 64) % 2 = 1

---------------------------------------------------------------------------
(* LEB128 encoders (impl LebSerialize for u32, u64, i32, i64).  Each       *)
(* returns the bytes the loop extends the receiver with.                   *)

\* A variant that tests the value before the shift instead of after it.
RECURSIVE leb_serialize_u32_TestBeforeShift(_)
leb_serialize_u32_TestBeforeShift(x0) ==
    LET b == Low7(x0)
        x == ShrLogical7(x0)
    IN  IF ~IsZero(x0)
        THEN <<b + 128>> \o leb_serialize_u32_TestBeforeShift(x)
        ELSE <<b>>

RECURSIVE leb_serialize_u32(_)
leb_serialize_u32(x0) ==
    LET b == Low7(x0)
        x == ShrLogical7(x0)
    IN  IF ~IsZero(x)
        THEN <<b + 128>> \o leb_serialize_u32(x)
        ELSE <<b>>

RECURSIVE leb_serialize_u64(_)
leb_serialize_u64(x0) ==
    LET b == Low7(x0)
        x == ShrLogical7(x0)
    IN  IF ~IsZero(x)
        THEN <<b + 128>> \o leb_serialize_u64(x)
        ELSE <<b>>

\* A variant that ends as soon as the remaining value is 0 or -1, whatever
\* bit 6 of the byte is.
RECURSIVE leb_serialize_i32_IgnoreSignBit(_)
leb_serialize_i32_IgnoreSignBit(x0) ==
    LET b == Low7(x0)
        x == ShrArith7(x0)
    IN  IF ~IsZero(x) /\ ~IsMinusOne(x)
        THEN <<b + 128>> \o leb_serialize_i32_IgnoreSignBit(x)
        ELSE <<b>>

\* A variant that takes bit 5 of the byte (b & 32) for the sign bit.
RECURSIVE leb_serialize_i32_WrongSignMask(_)
leb_serialize_i32_WrongSignMask(x0) ==
    LET b == Low7(x0)
        x == ShrArith7(x0)
        bit5 == (b \div 32) % 2 = 1
    IN  IF (~IsZero(x) \/ bit5) /\ (~IsMinusOne(x) \/ ~bit5)
        THEN <<b + 128>> \o leb_serialize_i32_WrongSignMask(x)
        ELSE <<b>>

RECURSIVE leb_serialize_i32(_)
leb_serialize_i32(x0) ==
    LET b == Low7(x0)
        x == ShrArith7(x0)
    IN  IF (~IsZero(x) \/ Bit6Set(b)) /\ (~IsMinusOne(x) \/ ~Bit6Set(b))
        THEN <<b + 128>> \o leb_serialize_i32(x)
        ELSE <<b>>

\* A variant whose shift brings in zeros (a shift of the value as u64).
RECURSIVE leb_serialize_i64_LogicalShift(_)
leb_serialize_i64_LogicalShift(x0) ==
    LET b == Low7(x0)
        x == ShrLogical7(x0)
    IN  IF (~IsZero(x) \/ Bit6Set(b)) /\ (~IsMinusOne(x) \/ ~Bit6Set(b))
        THEN <<b + 128>> \o leb_serialize_i64_LogicalShift(x)
        ELSE <<b>>

RECURSIVE leb_serialize_i64(_)
leb_serialize_i64(x0) ==
    LET b == Low7(x0)
        x == ShrArith7(x0)
    IN  IF (~IsZero(x) \/ Bit6Set(b)) /\ (~IsMinusOne(x) \/ ~Bit6Set(b))
        THEN <<b + 128>> \o leb_serialize_i64(x)
        ELSE <<b>>

\* `(n as u32).leb_serialize(receiver)` for a length or index n < 2^31.
LebU32OfNat(n) == leb_serialize_u32(BitsOf(n, 32))

---------------------------------------------------------------------------
(* Outcome of a serializer: the bytes it extended the receiver with, and   *)
(* whether it returned (ok) or panicked after writing them.                *)

Ok(bs) == [ok |-> TRUE, bytes |-> bs]
Panicked(bs) == [ok |-> FALSE, bytes |-> bs]

\* Serializers run one after the other on the same receiver: a panic ends
\* the run, keeping what was written before it.  (Running the first half
\* and then the second is the same run; it keeps the recursion shallow.)
RECURSIVE RunAll(_)
RunAll(rs) ==
    IF rs = <<>> THEN Ok(<<>>)
    ELSE IF Len(rs) = 1 THEN rs[1]
    ELSE LET mid == Len(rs) \div 2
             first == RunAll(SubSeq(rs, 1, mid))
             rest == RunAll(SubSeq(rs, mid + 1, Len(rs)))
         IN  IF ~first.ok THEN first
             ELSE [ok |-> rest.ok, bytes |-> first.bytes \o rest.bytes]

---------------------------------------------------------------------------
(* Containers.                                                             *)

\* `elem.wasm_serialize(receiver)` for an element of type T: Rust picks the
\* impl by the static type, the model by the type's name.
RECURSIVE wasm_serialize(_, _)

\* A variant that writes the elements without their count.
slice_wasm_serialize_NoCount(T, self) ==
    RunAll([i \in 1..Len(self) |-> wasm_serialize(T, self[i])])

\* impl WasmSerialize for [T] (and Vec<T>, which defers to the slice):
\* the length as u32 LEB, then every element in index order.
slice_wasm_serialize(T, self) ==
    RunAll(<<Ok(LebU32OfNat(Len(self)))>>
           \o [i \in 1..Len(self) |-> wasm_serialize(T, self[i])])

\* The bytes of a slice whose element type cannot panic.
SliceBytes(T, self) == slice_wasm_serialize(T, self).bytes

\* The UTF-8 encoding of one char (a Unicode scalar value): a Rust str is
\* stored as these bytes.
Utf8(c) ==
    IF c < 128 THEN <<c>>
    ELSE IF c < 2048 THEN <<192 + (c \div 64), 128 + (c % 64)>>
    ELSE IF c < 65536
         THEN <<224 + (c \div 4096), 128 + ((c \div 64) % 64), 128 + (c % 64)>>
    ELSE <<240 + (c \div 262144), 128 + ((c \div 4096) % 64),
           128 + ((c \div 64) % 64), 128 + (c % 64)>>

\* `self.as_bytes()` of a str given as its sequence of chars.
RECURSIVE as_bytes(_)
as_bytes(s) ==
    IF s = <<>> THEN <<>>
    ELSE IF Len(s) = 1 THEN Utf8(s[1])
    ELSE LET mid == Len(s) \div 2
         IN  as_bytes(SubSeq(s, 1, mid)) \o as_bytes(SubSeq(s, mid + 1, Len(s)))

\* A variant that prefixes the number of chars instead of bytes.
str_wasm_serialize_CharCount(self) ==
    LebU32OfNat(Len(self)) \o as_bytes(self)

\* impl WasmSerialize for str
str_wasm_serialize(self) ==
    LET u8bytes == as_bytes(self)
    IN  LebU32OfNat(Len(u8bytes)) \o u8bytes

---------------------------------------------------------------------------
(* Entities of the module (lib-wasmgen).                                   *)

\* ValType::value(): the tag byte of a value type.
ValType_value(t) ==
    CASE t = "I32" -> 127
      [] t = "I64" -> 126
      [] t = "F32" -> 125
      [] t = "F64" -> 124

ValType_wasm_serialize(self) == <<ValType_value(self)>>

FuncType_wasm_serialize(self) ==
    <<96>>
    \o SliceBytes("ValType", self.param_types)
    \o SliceBytes("ValType", self.result_types)

\* TypeIdx, FuncIdx, TableIdx, MemIdx, GlobalIdx and LocalIdx all write
\* their u32 index as LEB.
TypeIdx_wasm_serialize(self) == LebU32OfNat(self.idx)
FuncIdx_wasm_serialize(self) == LebU32OfNat(self.idx)
TableIdx_wasm_serialize(self) == LebU32OfNat(self.idx)
MemIdx_wasm_serialize(self) == LebU32OfNat(self.idx)
GlobalIdx_wasm_serialize(self) == LebU32OfNat(self.idx)

ElemType_wasm_serialize(self) ==
    CASE self = "FuncRef" -> <<112>>

Limits_wasm_serialize(self) ==
    CASE self.tag = "Unbounded" -> <<0>> \o LebU32OfNat(self.min)
      [] self.tag = "Bounded" ->
            <<1>> \o LebU32OfNat(self.min) \o LebU32OfNat(self.max)

TableType_wasm_serialize(self) ==
    ElemType_wasm_serialize(self.elem_type)
    \o Limits_wasm_serialize(self.limits)

MemType_wasm_serialize(self) == Limits_wasm_serialize(self.limits)

Mut_wasm_serialize(self) ==
    CASE self = "Const" -> <<0>>
      [] self = "Var" -> <<1>>

GlobalType_wasm_serialize(self) ==
    ValType_wasm_serialize(self.val_type)
    \o Mut_wasm_serialize(self.mutability)

\* A variant that writes a global import with the tag of a memory import.
ImportDesc_wasm_serialize_GlobalAsMem(self) ==
    CASE self.tag = "Func" -> <<0>> \o TypeIdx_wasm_serialize(self.val)
      [] self.tag = "Table" -> <<1>> \o TableType_wasm_serialize(self.val)
      [] self.tag = "Mem" -> <<2>> \o MemType_wasm_serialize(self.val)
      [] self.tag = "Global" -> <<2>> \o GlobalType_wasm_serialize(self.val)

ImportDesc_wasm_serialize(self) ==
    CASE self.tag = "Func" -> <<0>> \o TypeIdx_wasm_serialize(self.val)
      [] self.tag = "Table" -> <<1>> \o TableType_wasm_serialize(self.val)
      [] self.tag = "Mem" -> <<2>> \o MemType_wasm_serialize(self.val)
      [] self.tag = "Global" -> <<3>> \o GlobalType_wasm_serialize(self.val)

Import_wasm_serialize(self) ==
    str_wasm_serialize(self.module_name)
    \o str_wasm_serialize(self.entity_name)
    \o ImportDesc_wasm_serialize(self.desc)

Table_wasm_serialize(self) == TableType_wasm_serialize(self.table_type)

Mem_wasm_serialize(self) == MemType_wasm_serialize(self.mem_type)

\* The bytecode of an expression is copied as it is.
Expr_wasm_serialize(self) == self.bytecode

Global_wasm_serialize(self) ==
    GlobalType_wasm_serialize(self.global_type)
    \o Expr_wasm_serialize(self.init_expr)

ExportDesc_wasm_serialize(self) ==
    CASE self.tag = "Func" -> <<0>> \o FuncIdx_wasm_serialize(self.val)
      [] self.tag = "Table" -> <<1>> \o TableIdx_wasm_serialize(self.val)
      [] self.tag = "Mem" -> <<2>> \o MemIdx_wasm_serialize(self.val)
      [] self.tag = "Global" -> <<3>> \o GlobalIdx_wasm_serialize(self.val)

Export_wasm_serialize(self) ==
    str_wasm_serialize(self.entity_name)
    \o ExportDesc_wasm_serialize(self.desc)

Elem_wasm_serialize(self) ==
    TableIdx_wasm_serialize(self.table_idx)
    \o Expr_wasm_serialize(self.offset)
    \o SliceBytes("FuncIdx", self.content)

\* A variant that writes nothing for a body that was never committed.
Code_wasm_serialize_SkipUncommitted(self) ==
    IF self.func.some
    THEN Ok(LebU32OfNat(Len(self.func.bytes)) \o self.func.bytes)
    ELSE Ok(<<>>)

\* A committed body is written length first; one that was registered and
\* never committed is the internal-consistency panic.
Code_wasm_serialize(self) ==
    IF self.func.some
    THEN Ok(LebU32OfNat(Len(self.func.bytes)) \o self.func.bytes)
    ELSE Panicked(<<>>)

Data_wasm_serialize(self) ==
    MemIdx_wasm_serialize(self.mem_idx)
    \o Expr_wasm_serialize(self.offset)
    \o LebU32OfNat(Len(self.content))
    \o self.content

\* The impl chosen for each element type a slice of the module holds.
wasm_serialize(T, self) ==
    CASE T = "ValType" -> Ok(ValType_wasm_serialize(self))
      [] T = "FuncType" -> Ok(FuncType_wasm_serialize(self))
      [] T = "Import" -> Ok(Import_wasm_serialize(self))
      [] T = "TypeIdx" -> Ok(TypeIdx_wasm_serialize(self))
      [] T = "FuncIdx" -> Ok(FuncIdx_wasm_serialize(self))
      [] T = "Table" -> Ok(Table_wasm_serialize(self))
      [] T = "Mem" -> Ok(Mem_wasm_serialize(self))
      [] T = "Global" -> Ok(Global_wasm_serialize(self))
      [] T = "Export" -> Ok(Export_wasm_serialize(self))
      [] T = "Elem" -> Ok(Elem_wasm_serialize(self))
      [] T = "Code" -> Code_wasm_serialize(self)
      [] T = "Data" -> Ok(Data_wasm_serialize(self))

---------------------------------------------------------------------------
(* Sections and the module (lib-wasmgen).                                  *)

\* A variant that writes the length as one raw byte (`buf.len() as u8`).
serialize_section_content_ByteLength(content) ==
    IF content.ok
    THEN Ok(<<Len(content.bytes) % 256>> \o content.bytes)
    ELSE Panicked(<<>>)

\* A variant without the buffer: what the content wrote before a panic is
\* in the receiver.
serialize_section_content_StraightToReceiver(content) ==
    IF content.ok
    THEN Ok(LebU32OfNat(Len(content.bytes)) \o content.bytes)
    ELSE Panicked(content.bytes)

\* The content goes into a buffer of its own first, then its length and the
\* buffer go to the receiver: a panic in the content leaves the receiver as
\* it was.  `content` is the outcome of content.wasm_serialize(&mut buf).
serialize_section_content(content) ==
    IF content.ok
    THEN Ok(LebU32OfNat(Len(content.bytes)) \o content.bytes)
    ELSE Panicked(<<>>)

serialize_section(magic, T, content) ==
    IF content # <<>>
    THEN RunAll(<<Ok(<<magic>>),
                  serialize_section_content(slice_wasm_serialize(T, content))>>)
    ELSE Ok(<<>>)

TypeSection_wasm_serialize(self) == serialize_section(1, "FuncType", self.content)
ImportSection_wasm_serialize(self) == serialize_section(2, "Import", self.content)
FuncSection_wasm_serialize(self) == serialize_section(3, "TypeIdx", self.content)
TableSection_wasm_serialize(self) == serialize_section(4, "Table", self.content)
MemSection_wasm_serialize(self) == serialize_section(5, "Mem", self.content)
GlobalSection_wasm_serialize(self) == serialize_section(6, "Global", self.content)
\* A variant whose order of the exports changes from one run to the next,
\* as iteration over a hashed collection would.
ExportSection_wasm_serialize_OrderPerRun(self) ==
    serialize_section(7, "Export",
        IF status = "idle" THEN self.content
        ELSE [i \in 1..Len(self.content) |-> self.content[Len(self.content) + 1 - i]])

ExportSection_wasm_serialize(self) == serialize_section(7, "Export", self.content)

StartSection_wasm_serialize(self) ==
    IF self.start.some
    THEN RunAll(<<Ok(<<8>>),
                  serialize_section_content(
                      Ok(FuncIdx_wasm_serialize(self.start.val)))>>)
    ELSE Ok(<<>>)

ElemSection_wasm_serialize(self) == serialize_section(9, "Elem", self.content)
CodeSection_wasm_serialize(self) == serialize_section(10, "Code", self.content)
DataSection_wasm_serialize(self) == serialize_section(11, "Data", self.content)

\* A variant that writes the Elem section before the Start section.
WasmModule_wasm_serialize_ElemBeforeStart(self) ==
    RunAll(<<Ok(<<0, 97, 115, 109>>),
             Ok(<<1, 0, 0, 0>>),
             TypeSection_wasm_serialize(self.type_section),
             ImportSection_wasm_serialize(self.import_section),
             FuncSection_wasm_serialize(self.func_section),
             TableSection_wasm_serialize(self.table_section),
             MemSection_wasm_serialize(self.mem_section),
             GlobalSection_wasm_serialize(self.global_section),
             ExportSection_wasm_serialize(self.export_section),
             ElemSection_wasm_serialize(self.elem_section),
             StartSection_wasm_serialize(self.start_section),
             CodeSection_wasm_serialize(self.code_section),
             DataSection_wasm_serialize(self.data_section)>>)

WasmModule_wasm_serialize(self) ==
    RunAll(<<Ok(<<0, 97, 115, 109>>),
             Ok(<<1, 0, 0, 0>>),
             TypeSection_wasm_serialize(self.type_section),
             ImportSection_wasm_serialize(self.import_section),
             FuncSection_wasm_serialize(self.func_section),
             TableSection_wasm_serialize(self.table_section),
             MemSection_wasm_serialize(self.mem_section),
             GlobalSection_wasm_serialize(self.global_section),
             ExportSection_wasm_serialize(self.export_section),
             StartSection_wasm_serialize(self.start_section),
             ElemSection_wasm_serialize(self.elem_section),
             CodeSection_wasm_serialize(self.code_section),
             DataSection_wasm_serialize(self.data_section)>>)

---------------------------------------------------------------------------
(* The serializer of the root crate (src/wasmgen/mod.rs): a module of one  *)
(* section, the Type section.                                              *)

RECURSIVE root_leb_serialize_u32(_)
root_leb_serialize_u32(x0) ==
    LET b == Low7(x0)
        x == ShrLogical7(x0)
    IN  IF ~IsZero(x)
        THEN <<b + 128>> \o root_leb_serialize_u32(x)
        ELSE <<b>>

RECURSIVE root_leb_serialize_i32(_)
root_leb_serialize_i32(x0) ==
    LET b == Low7(x0)
        x == ShrArith7(x0)
    IN  IF (~IsZero(x) \/ Bit6Set(b)) /\ (~IsMinusOne(x) \/ ~Bit6Set(b))
        THEN <<b + 128>> \o root_leb_serialize_i32(x)
        ELSE <<b>>

root_ValType_wasm_serialize(self) ==
    CASE self = "I32" -> <<127>>
      [] self = "I64" -> <<126>>
      [] self = "F32" -> <<125>>
      [] self = "F64" -> <<124>>

\* impl WasmSerialize for Vec<T>, at T = ValType
RECURSIVE root_VecValType_elems(_)
root_VecValType_elems(self) ==
    IF self = <<>> THEN <<>>
    ELSE root_ValType_wasm_serialize(Head(self))
         \o root_VecValType_elems(Tail(self))

root_VecValType_wasm_serialize(self) ==
    root_leb_serialize_u32(BitsOf(Len(self), 32)) \o root_VecValType_elems(self)

root_FuncType_wasm_serialize(self) ==
    <<96>>
    \o root_VecValType_wasm_serialize(self.param_types)
    \o root_VecValType_wasm_serialize(self.result_types)

\* impl WasmSerialize for Vec<T>, at T = FuncType
RECURSIVE root_VecFuncType_elems(_)
root_VecFuncType_elems(self) ==
    IF self = <<>> THEN <<>>
    ELSE root_FuncType_wasm_serialize(Head(self))
         \o root_VecFuncType_elems(Tail(self))

root_VecFuncType_wasm_serialize(self) ==
    root_leb_serialize_u32(BitsOf(Len(self), 32)) \o root_VecFuncType_elems(self)

\* `buf` is what content.wasm_serialize wrote into the local buffer.
root_serialize_section(buf) ==
    root_leb_serialize_u32(BitsOf(Len(buf), 32)) \o buf

root_TypeSection_wasm_serialize(self) ==
    <<1>> \o root_serialize_section(root_VecFuncType_wasm_serialize(self.data.vec))

root_WasmModule_wasm_serialize(self) ==
    <<0, 97, 115, 109>>
    \o <<1, 0, 0, 0>>
    \o root_TypeSection_wasm_serialize(self.type_section)

---------------------------------------------------------------------------
(* The unreachable-code pass of lib-ir (opt/unreachable.rs).                *)
(*                                                                         *)
(* An Expr is [kind, vartype, children]: vartype is None or Some(type), and *)
(* children are the sub-expressions of the kind in the order the pass       *)
(* visits them (closure; test, true_expr, false_expr; func and args; ...).  *)

None == [some |-> FALSE]
Some(v) == [some |-> TRUE, val |-> v]

\* Nothing has come out of an entry point yet.
NoResult == [returned |-> None, out_wasm |-> None, exit_code |-> None]

Expr(kind, vartype, children) ==
    [kind |-> kind, vartype |-> vartype, children |-> children]

\* The kinds the pass recurses into without rewriting the node itself.
RecurseKinds ==
    {"PrimFunc", "TypeCast", "PrimAppl", "Appl", "DirectAppl", "Conditional",
     "Assign", "Return"}

RECURSIVE optimize_expr(_)
RECURSIVE sequence_loop(_, _, _, _)
RECURSIVE sequence_loop_TestBeforeOptimize(_, _, _, _)
RECURSIVE sequence_loop_BreakBeforePush(_, _, _, _)
RECURSIVE sequence_loop_BreakAlways(_, _, _, _)

\* A variant that looks at the element's vartype before optimizing it.
sequence_loop_TestBeforeOptimize(tmp_content, i, new_content, changed) ==
    IF i > Len(tmp_content) THEN [content |-> new_content, changed |-> changed]
    ELSE LET r == optimize_expr(tmp_content[i])
             is_none == ~tmp_content[i].vartype.some
         IN  IF is_none
             THEN [content |-> Append(new_content, r.expr),
                   changed |-> changed \/ r.changed]
             ELSE sequence_loop_TestBeforeOptimize(tmp_content, i + 1,
                      Append(new_content, r.expr), changed \/ r.changed)

\* A variant that leaves the loop before it has pushed the None element.
sequence_loop_BreakBeforePush(tmp_content, i, new_content, changed) ==
    IF i > Len(tmp_content) THEN [content |-> new_content, changed |-> changed]
    ELSE LET r == optimize_expr(tmp_content[i])
             is_none == ~r.expr.vartype.some
         IN  IF is_none
             THEN [content |-> new_content, changed |-> changed \/ r.changed]
             ELSE sequence_loop_BreakBeforePush(tmp_content, i + 1,
                      Append(new_content, r.expr), changed \/ r.changed)

\* A variant that leaves the loop after the first element, whatever it is.
sequence_loop_BreakAlways(tmp_content, i, new_content, changed) ==
    IF i > Len(tmp_content) THEN [content |-> new_content, changed |-> changed]
    ELSE LET r == optimize_expr(tmp_content[i])
         IN  [content |-> Append(new_content, r.expr),
              changed |-> changed \/ r.changed]

\* for mut expr2 in tmp_content { ... }: the element is optimized, pushed,
\* and the loop is left when its vartype is None after that.
sequence_loop(tmp_content, i, new_content, changed) ==
    IF i > Len(tmp_content) THEN [content |-> new_content, changed |-> changed]
    ELSE LET r == optimize_expr(tmp_content[i])
             is_none == ~r.expr.vartype.some
         IN  IF is_none
             THEN [content |-> Append(new_content, r.expr),
                   changed |-> changed \/ r.changed]
             ELSE sequence_loop(tmp_content, i + 1,
                      Append(new_content, r.expr), changed \/ r.changed)

\* A variant that makes the node diverge as soon as one child does.
optimize_children_NoneFromChild(expr) ==
    LET rs == [i \in 1..Len(expr.children) |-> optimize_expr(expr.children[i])]
        diverges == \E i \in 1..Len(rs) : ~rs[i].expr.vartype.some
    IN  [expr |-> [expr EXCEPT !.children = [i \in 1..Len(rs) |-> rs[i].expr],
                               !.vartype = IF diverges THEN None ELSE @],
         changed |-> \E i \in 1..Len(rs) : rs[i].changed]

\* args.iter_mut().fold(false, |prev, arg| prev | optimize_expr(arg)), and
\* the `|` of the fixed children: every child is optimized.
optimize_children(expr) ==
    LET rs == [i \in 1..Len(expr.children) |-> optimize_expr(expr.children[i])]
    IN  [expr |-> [expr EXCEPT !.children = [i \in 1..Len(rs) |-> rs[i].expr]],
         changed |-> \E i \in 1..Len(rs) : rs[i].changed]

\* A variant that gives a Return the vartype of the expression it returns,
\* as the pass does for a Declaration.
optimize_expr_ReturnTakesInner(expr) ==
    CASE expr.kind = "Return" ->
            LET res == optimize_expr(expr.children[1])
            IN  [expr |-> [expr EXCEPT !.children = <<res.expr>>,
                                       !.vartype = res.expr.vartype],
                 changed |-> res.changed]
      [] expr.kind \in RecurseKinds \ {"Return"} -> optimize_children(expr)
      [] expr.kind = "Declaration" ->
            LET res == optimize_expr(expr.children[1])
            IN  [expr |-> [expr EXCEPT !.children = <<res.expr>>,
                                       !.vartype = res.expr.vartype],
                 changed |-> res.changed]
      [] expr.kind = "Sequence" ->
            LET tmp_content == expr.children
                l == sequence_loop(tmp_content, 1, <<>>, FALSE)
                new_content == l.content
            IN  [expr |-> [expr EXCEPT
                              !.children = new_content,
                              !.vartype = IF new_content = <<>> THEN None
                                          ELSE new_content[Len(new_content)].vartype],
                 changed |-> l.changed \/ Len(new_content) # Len(tmp_content)]
      [] OTHER -> [expr |-> expr, changed |-> FALSE]

\* A variant that copies the initializer's vartype into the Declaration
\* before the initializer has been optimized.
optimize_expr_CopyBeforeRecurse(expr) ==
    CASE expr.kind \in RecurseKinds -> optimize_children(expr)
      [] expr.kind = "Declaration" ->
            LET res == optimize_expr(expr.children[1])
            IN  [expr |-> [expr EXCEPT !.children = <<res.expr>>,
                                       !.vartype = expr.children[1].vartype],
                 changed |-> res.changed]
      [] expr.kind = "Sequence" ->
            LET tmp_content == expr.children
                l == sequence_loop(tmp_content, 1, <<>>, FALSE)
                new_content == l.content
            IN  [expr |-> [expr EXCEPT
                              !.children = new_content,
                              !.vartype = IF new_content = <<>> THEN None
                                          ELSE new_content[Len(new_content)].vartype],
                 changed |-> l.changed \/ Len(new_content) # Len(tmp_content)]
      [] OTHER -> [expr |-> expr, changed |-> FALSE]

optimize_expr(expr) ==
    CASE expr.kind \in RecurseKinds -> optimize_children(expr)
      [] expr.kind = "Declaration" ->
            LET res == optimize_expr(expr.children[1])
            IN  [expr |-> [expr EXCEPT !.children = <<res.expr>>,
                                       !.vartype = res.expr.vartype],
                 changed |-> res.changed]
      [] expr.kind = "Sequence" ->
            LET tmp_content == expr.children
                l == sequence_loop(tmp_content, 1, <<>>, FALSE)
                new_content == l.content
            IN  [expr |-> [expr EXCEPT
                              !.children = new_content,
                              !.vartype = IF new_content = <<>> THEN None
                                          ELSE new_content[Len(new_content)].vartype],
                 changed |-> l.changed \/ Len(new_content) # Len(tmp_content)]
      [] OTHER -> [expr |-> expr, changed |-> FALSE]

optimize_func(func) ==
    LET r == optimize_expr(func.expr)
    IN  [func |-> [func EXCEPT !.expr = r.expr], changed |-> r.changed]

\* A variant that assigns the flag of each function instead of or-ing it.
optimize_LastFlagWins(prog) ==
    LET rs == [i \in 1..Len(prog.funcs) |-> optimize_func(prog.funcs[i])]
    IN  [program |-> [prog EXCEPT !.funcs = [i \in 1..Len(rs) |-> rs[i].func]],
         changed |-> rs # <<>> /\ rs[Len(rs)].changed]

\* for func in &mut program.funcs { changed |= optimize_func(func); }
optimize(prog) ==
    LET rs == [i \in 1..Len(prog.funcs) |-> optimize_func(prog.funcs[i])]
    IN  [program |-> [prog EXCEPT !.funcs = [i \in 1..Len(rs) |-> rs[i].func]],
         changed |-> \E i \in 1..Len(rs) : rs[i].changed]

---------------------------------------------------------------------------
(* Arguments given to the pure serializers.                                *)

\* 2^n - 1 and 2^(n-1) at width w, and the bitwise complement.
Ones(n, w) == [i \in 1..w |-> IF i <= n THEN 1 ELSE 0]
Top(n, w) == [i \in 1..w |-> IF i = n THEN 1 ELSE 0]
Not(x) == [i \in 1..Len(x) |-> 1 - x[i]]

\* The small values, and around every power of two up to the width.
UnsignedInputs(w) ==
    {BitsOf(v, w) : v \in 0..MaxSmall}
    \cup {Ones(n, w) : n \in 0..w}
    \cup {Top(n, w) : n \in 1..w}

SignedInputs(w) ==
    {BitsOf(v, w) : v \in (0 - MaxSmall)..MaxSmall}
    \cup {Ones(n, w) : n \in 0..w} \cup {Not(Ones(n, w)) : n \in 0..w}
    \cup {Top(n, w) : n \in 1..w} \cup {Not(Top(n, w)) : n \in 1..w}

SeqsUpTo(S, n) == UNION {[1..k -> S] : k \in 0..n}

ValTypes == {"I32", "I64", "F32", "F64"}

\* Lengths whose LEB takes one byte (127) and two bytes (128, 129).
LongLens == {127, 128, 129}

VecValTypeInputs ==
    SeqsUpTo(ValTypes, MaxLen)
    \cup {[i \in 1..n |-> IF i % 2 = 1 THEN "I32" ELSE "F64"] : n \in LongLens}

VecFuncIdxInputs == SeqsUpTo({[idx |-> 0], [idx |-> 200]}, MaxLen)

\* 'a', e-acute, the euro sign and an emoji: 1, 2, 3 and 4 bytes of UTF-8.
Chars == {97, 233, 8364, 128512}

StrInputs ==
    SeqsUpTo(Chars, MaxLen)
    \cup {<<116, 101, 115, 116>>}
    \cup {[i \in 1..n |-> IF i = 1 THEN 97 ELSE 128512] : n \in {32, 33, 34}}

\* One entity of every kind that carries a tag byte, in each of its variants.
LimitsInputs ==
    {[tag |-> "Unbounded", min |-> m] : m \in {0, 1, 200}}
    \cup {[tag |-> "Bounded", min |-> m, max |-> x] : m \in {0, 1, 200}, x \in {1, 200}}

MutInputs == {"Const", "Var"}

ImportDescInputs ==
    {[tag |-> "Func", val |-> [idx |-> i]] : i \in {0, 1, 2, 3, 200}}
    \cup {[tag |-> "Table", val |-> [elem_type |-> "FuncRef", limits |-> l]] : l \in LimitsInputs}
    \cup {[tag |-> "Mem", val |-> [limits |-> l]] : l \in LimitsInputs}
    \cup {[tag |-> "Global", val |-> [val_type |-> t, mutability |-> m]] :
              t \in ValTypes, m \in MutInputs}

ExportDescInputs ==
    {[tag |-> t, val |-> [idx |-> i]] :
        t \in {"Func", "Table", "Mem", "Global"}, i \in {0, 1, 2, 3, 200}}

FuncTypeInputs ==
    {[param_types |-> ps, result_types |-> rs] :
        ps \in SeqsUpTo(ValTypes, 2), rs \in SeqsUpTo({"I32", "F64"}, 1)}

ElemTypeInputs == {"FuncRef"}

Calls ==
    {[fn |-> "leb_u32", arg |-> x] : x \in UnsignedInputs(32)}
    \cup {[fn |-> "leb_u64", arg |-> x] : x \in UnsignedInputs(64)}
    \cup {[fn |-> "leb_i32", arg |-> x] : x \in SignedInputs(32)}
    \cup {[fn |-> "leb_i64", arg |-> x] : x \in SignedInputs(64)}
    \cup {[fn |-> "root_leb_u32", arg |-> x] : x \in UnsignedInputs(32)}
    \cup {[fn |-> "root_leb_i32", arg |-> x] : x \in SignedInputs(32)}
    \cup {[fn |-> "vec_ValType", arg |-> v] : v \in VecValTypeInputs}
    \cup {[fn |-> "vec_FuncIdx", arg |-> v] : v \in VecFuncIdxInputs}
    \cup {[fn |-> "str", arg |-> v] : v \in StrInputs}
    \cup {[fn |-> "Limits", arg |-> v] : v \in LimitsInputs}
    \cup {[fn |-> "Mut", arg |-> v] : v \in MutInputs}
    \cup {[fn |-> "ImportDesc", arg |-> v] : v \in ImportDescInputs}
    \cup {[fn |-> "ExportDesc", arg |-> v] : v \in ExportDescInputs}
    \cup {[fn |-> "FuncType", arg |-> v] : v \in FuncTypeInputs}
    \cup {[fn |-> "ElemType", arg |-> v] : v \in ElemTypeInputs}
    \cup {[fn |-> "root_ValType", arg |-> v] : v \in ValTypes}

NoCall == [fn |-> "none", arg |-> <<>>]
NotReturned == [done |-> FALSE, bytes |-> <<>>]
Returned(bs) == [done |-> TRUE, bytes |-> bs]

---------------------------------------------------------------------------
(* Modules given to wasm_serialize.                                        *)

FuncType(params, results) == [param_types |-> params, result_types |-> results]
Unbounded(min) == [tag |-> "Unbounded", min |-> min]
Bounded(min, max) == [tag |-> "Bounded", min |-> min, max |-> max]
Desc(tag, val) == [tag |-> tag, val |-> val]
\* `i32.const 0; end`
ConstExpr == [bytecode |-> <<65, 0, 11>>]

TypeChoices ==
    {<<>>,
     <<FuncType(<<>>, <<>>), FuncType(<<"I32", "F64">>, <<"I64">>)>>}

ImportChoices ==
    {<<>>,
     <<[module_name |-> <<101, 110, 118>>, entity_name |-> <<102>>,
        desc |-> Desc("Func", [idx |-> 1])],
       [module_name |-> <<101, 110, 118>>, entity_name |-> <<116, 233>>,
        desc |-> Desc("Table", [elem_type |-> "FuncRef", limits |-> Unbounded(1)])],
       [module_name |-> <<>>, entity_name |-> <<109>>,
        desc |-> Desc("Mem", [limits |-> Bounded(1, 200)])],
       [module_name |-> <<101>>, entity_name |-> <<103>>,
        desc |-> Desc("Global", [val_type |-> "F32", mutability |-> "Var"])]>>}

FuncChoices == {<<>>, <<[idx |-> 0], [idx |-> 200]>>}

TableChoices ==
    {<<>>, <<[table_type |-> [elem_type |-> "FuncRef", limits |-> Bounded(0, 2)]]>>}

MemChoices == {<<>>, <<[mem_type |-> [limits |-> Unbounded(1)]]>>}

GlobalChoices ==
    {<<>>,
     <<[global_type |-> [val_type |-> "I32", mutability |-> "Const"],
        init_expr |-> ConstExpr]>>}

ExportChoices ==
    {<<>>,
     <<[entity_name |-> <<109, 97, 105, 110>>, desc |-> Desc("Func", [idx |-> 0])],
       [entity_name |-> <<116>>, desc |-> Desc("Table", [idx |-> 0])],
       [entity_name |-> <<109>>, desc |-> Desc("Mem", [idx |-> 0])],
       [entity_name |-> <<103>>, desc |-> Desc("Global", [idx |-> 130])]>>}

StartChoices == {None, Some([idx |-> 0])}

ElemChoices ==
    {<<>>,
     <<[table_idx |-> [idx |-> 0], offset |-> ConstExpr,
        content |-> <<[idx |-> 0], [idx |-> 1]>>]>>}

\* A committed body is `local.get 0; end` behind an empty vector of locals.
Committed == [func |-> [some |-> TRUE, bytes |-> <<0, 32, 0, 11>>]]
Uncommitted == [func |-> [some |-> FALSE]]

CodeChoices ==
    {<<>>, <<Committed>>, <<Uncommitted>>,
     <<Committed, Uncommitted>>, <<Uncommitted, Committed>>}

\* One data segment of 130 bytes: a section longer than 127 bytes.
DataChoices ==
    {<<>>,
     <<[mem_idx |-> [idx |-> 0], offset |-> ConstExpr,
        content |-> [i \in 1..130 |-> i]]>>}

LibModules ==
    {[crate |-> "lib-wasmgen",
      type_section |-> [content |-> ty],
      import_section |-> [content |-> im],
      func_section |-> [content |-> fu],
      table_section |-> [content |-> ta],
      mem_section |-> [content |-> me],
      global_section |-> [content |-> gl],
      export_section |-> [content |-> ex],
      start_section |-> [start |-> st],
      elem_section |-> [content |-> el],
      code_section |-> [content |-> co],
      data_section |-> [content |-> da]] :
        ty \in TypeChoices, im \in ImportChoices, fu \in FuncChoices,
        ta \in TableChoices, me \in MemChoices, gl \in GlobalChoices,
        ex \in ExportChoices, st \in StartChoices, el \in ElemChoices,
        co \in CodeChoices, da \in DataChoices}

RootModules ==
    {[crate |-> "root", type_section |-> [data |-> [vec |-> v]]] :
        v \in SeqsUpTo({FuncType(<<>>, <<>>), FuncType(<<"I32">>, <<"I32">>),
                        FuncType(<<"I64", "F32">>, <<"F64">>)}, 2)}

\* WasmModule::default(): every section empty, no start function.
EmptyModule ==
    [crate |-> "lib-wasmgen",
     type_section |-> [content |-> <<>>], import_section |-> [content |-> <<>>],
     func_section |-> [content |-> <<>>], table_section |-> [content |-> <<>>],
     mem_section |-> [content |-> <<>>], global_section |-> [content |-> <<>>],
     export_section |-> [content |-> <<>>], start_section |-> [start |-> None],
     elem_section |-> [content |-> <<>>], code_section |-> [content |-> <<>>],
     data_section |-> [content |-> <<>>]]

---------------------------------------------------------------------------
(* The state machine.                                                      *)

---------------------------------------------------------------------------
(* The pool of scratch locals of lib-wasmgen (scratch.rs).                 *)

\* LocalsManager::add(valtype): a new local of that type is declared after
\* the ones there are, and its index is returned.
LocalsManager_add(locals_builder, valtype) ==
    [locals_builder |-> Append(locals_builder, valtype),
     ret |-> [idx |-> Len(locals_builder)]]

Scratch_new(locals_builder) ==
    [locals_builder |-> locals_builder,
     i32_buffer |-> <<>>, i64_buffer |-> <<>>, f32_buffer |-> <<>>, f64_buffer |-> <<>>,
     i32_idx |-> 0, i64_idx |-> 0, f32_idx |-> 0, f64_idx |-> 0]

\* A variant that leaves the counter where it is after a push.
push_impl_NoIncrement(locals_builder, valtype, buffer, idx) ==
    LET added == LocalsManager_add(locals_builder, valtype)
        grow == idx = Len(buffer)
        buffer2 == IF grow THEN Append(buffer, added.ret) ELSE buffer
    IN  [locals_builder |-> IF grow THEN added.locals_builder ELSE locals_builder,
         buffer |-> buffer2,
         idx |-> idx,
         ret |-> buffer2[idx + 1]]

\* A variant that declares a local on every push.
push_impl_AlwaysAdd(locals_builder, valtype, buffer, idx) ==
    LET added == LocalsManager_add(locals_builder, valtype)
        buffer2 == Append(buffer, added.ret)
    IN  [locals_builder |-> added.locals_builder,
         buffer |-> buffer2,
         idx |-> idx + 1,
         ret |-> buffer2[idx + 1]]

\* The pool grows by one declared local when the counter has reached its
\* end; the local at the counter is returned and the counter goes up.
push_impl(locals_builder, valtype, buffer, idx) ==
    LET added == LocalsManager_add(locals_builder, valtype)
        grow == idx = Len(buffer)
        buffer2 == IF grow THEN Append(buffer, added.ret) ELSE buffer
    IN  [locals_builder |-> IF grow THEN added.locals_builder ELSE locals_builder,
         buffer |-> buffer2,
         idx |-> idx + 1,
         ret |-> buffer2[idx + 1]]

\* A variant that leaves the counter where it is.
pop_impl_NoDecrement(idx) == [ok |-> idx > 0, idx |-> idx]

\* assert!(*idx > 0); *idx -= 1;
pop_impl(idx) ==
    IF idx > 0 THEN [ok |-> TRUE, idx |-> idx - 1] ELSE [ok |-> FALSE, idx |-> idx]

\* The fields of the pool of a value type.
BufferField(t) ==
    CASE t = "I32" -> "i32_buffer" [] t = "I64" -> "i64_buffer"
      [] t = "F32" -> "f32_buffer" [] t = "F64" -> "f64_buffer"

IdxField(t) ==
    CASE t = "I32" -> "i32_idx" [] t = "I64" -> "i64_idx"
      [] t = "F32" -> "f32_idx" [] t = "F64" -> "f64_idx"

\* push_<t>(&mut self) -> LocalIdx
Push(name, t) ==
    /\ scope = "open"
    /\ Len(calls) < MaxCalls
    /\ LET r == push_impl(scratch.locals_builder, t,
                          scratch[BufferField(t)], scratch[IdxField(t)])
       IN  /\ scratch' = [scratch EXCEPT !.locals_builder = r.locals_builder,
                                         ![BufferField(t)] = r.buffer,
                                         ![IdxField(t)] = r.idx]
           /\ calls' = Append(calls, [fn |-> name, type |-> t, ret |-> Some(r.ret)])
    /\ UNCHANGED <<pureVars, serVars, optVars, pipeVars, scope>>

\* pop_<t>(&mut self)
Pop(name, t) ==
    /\ scope = "open"
    /\ Len(calls) < MaxCalls
    /\ LET r == pop_impl(scratch[IdxField(t)])
       IN  /\ scratch' = [scratch EXCEPT ![IdxField(t)] = r.idx]
           /\ scope' = IF r.ok THEN "open" ELSE "panic"
    /\ calls' = Append(calls, [fn |-> name, type |-> t, ret |-> None])
    /\ UNCHANGED <<pureVars, serVars, optVars, pipeVars>>

push_i32 == Push("push_i32", "I32")
push_i64 == Push("push_i64", "I64")
push_f32 == Push("push_f32", "F32")
push_f64 == Push("push_f64", "F64")
pop_i32 == Pop("pop_i32", "I32")
pop_i64 == Pop("pop_i64", "I64")
pop_f32 == Pop("pop_f32", "F32")
pop_f64 == Pop("pop_f64", "F64")

\* The function that used the Scratch is over: the Scratch goes out of
\* scope. It has no Drop implementation, so nothing is looked at.
ScratchDropped ==
    /\ scope = "open"
    /\ scope' = "dropped"
    /\ UNCHANGED <<pureVars, serVars, optVars, pipeVars, scratch, calls>>

---------------------------------------------------------------------------
(* IR programs given to the unreachable-code pass.                         *)

VarName == Expr("VarName", Some("Any"), <<>>)
PrimNumber == Expr("PrimNumber", Some("Number"), <<>>)
Trap == Expr("Trap", None, <<>>)
\* A Return is built with vartype None, whatever it returns.
Return(e) == Expr("Return", None, <<e>>)
Declaration(vt, e) == Expr("Declaration", vt, <<e>>)
Sequence(vt, content) == Expr("Sequence", vt, content)
Conditional(vt, c, t, f) == Expr("Conditional", vt, <<c, t, f>>)

VarTypes == {None, Some("Any")}

\* What a Sequence is built of: leaves, nodes whose vartype the pass sets,
\* and inner Sequences that only become None when they are optimized.
Elements ==
    {VarName, Trap, Return(PrimNumber),
     Declaration(Some("Any"), Trap),
     Sequence(Some("Any"), <<Trap, VarName>>),
     Sequence(Some("Any"), <<VarName>>),
     Declaration(Some("Any"), Sequence(Some("Any"), <<Return(VarName), VarName>>)),
     Conditional(Some("Any"), VarName, Sequence(None, <<Trap, Trap>>), Trap)}

Sequences == {Sequence(vt, c) : vt \in VarTypes, c \in SeqsUpTo(Elements, MaxSeq)}

\* One node of every kind the pass recurses into, over a Sequence that it
\* will shorten and over one that it will leave alone.
Wrapped ==
    LET dead == Sequence(Some("Any"), <<VarName, Trap, VarName>>)
        live == Sequence(Some("Any"), <<VarName, VarName>>)
    IN  {Expr(k, Some("Any"), c) :
            k \in {"PrimFunc", "Assign"}, c \in {<<dead>>, <<live>>}}
        \cup {Expr(k, Some("Any"), c) :
                k \in {"TypeCast", "Conditional"},
                c \in {<<live, live, dead>>, <<VarName, dead, live>>, <<live, live, live>>}}
        \cup {Expr(k, Some("Any"), c) :
                k \in {"PrimAppl", "Appl", "DirectAppl"},
                c \in {<<>>, <<live>>, <<live, dead>>, <<dead, live, live>>}}
        \cup {Declaration(vt, e) : vt \in VarTypes, e \in {dead, live, Trap, VarName}}
        \cup {Return(dead), Return(live)}

\* function g() { return 1; return 2; }
FuncG == [expr |-> Sequence(Some("Any"), <<Return(PrimNumber), Return(PrimNumber)>>)]

Bodies == Sequences \cup Wrapped \cup {VarName, Trap}

\* Programs with all their fields: two functions with a result type each,
\* imports, a struct-type table and the index of the entry function.
FullPrograms ==
    LET dead == Sequence(Some("Any"), <<VarName, Trap, VarName>>)
    IN  {[funcs |-> <<[result |-> r, expr |-> a], [result |-> Some("Any"), expr |-> b]>>,
          imports |-> im, struct_types |-> st, entry_point |-> en] :
            r \in VarTypes,
            a \in {dead, VarName, Declaration(None, VarName)},
            b \in {FuncG.expr, VarName},
            im \in {<<>>, <<"display">>},
            st \in {<<>>, <<<<"Any", "Number">>>>},
            en \in {1, 2}}

Programs ==
    {[funcs |-> <<>>], [funcs |-> <<FuncG>>]}
    \cup {[funcs |-> <<[expr |-> b]>>] : b \in Bodies}
    \cup {[funcs |-> <<[expr |-> a], [expr |-> b]>>] : a \in Wrapped, b \in {FuncG.expr, VarName}}
    \cup FullPrograms

NoProgram == [funcs |-> <<>>]

\* A pure serializer is applied to its argument with a fresh receiver.
InitPure ==
    /\ call \in Calls
    /\ ret = NotReturned
    /\ module = EmptyModule
    /\ receiver = <<>>
    /\ status = "idle"
    /\ previous = <<>>
    /\ program = NoProgram
    /\ passes = <<>>
    /\ scratch = Scratch_new(<<>>)
    /\ calls = <<>>
    /\ scope = "open"
    /\ entry = "none"
    /\ pc = "start"
    /\ ran = <<>>
    /\ result = NoResult

Apply(fn, bs) ==
    /\ call.fn = fn
    /\ ~ret.done
    /\ ret' = Returned(bs)
    /\ UNCHANGED <<call, serVars, otherVars>>

CallLebU32 == Apply("leb_u32", leb_serialize_u32(call.arg))
CallLebU64 == Apply("leb_u64", leb_serialize_u64(call.arg))
CallLebI32 == Apply("leb_i32", leb_serialize_i32(call.arg))
CallLebI64 == Apply("leb_i64", leb_serialize_i64(call.arg))
CallRootLebU32 == Apply("root_leb_u32", root_leb_serialize_u32(call.arg))
CallRootLebI32 == Apply("root_leb_i32", root_leb_serialize_i32(call.arg))
CallVecValType == Apply("vec_ValType", slice_wasm_serialize("ValType", call.arg).bytes)
CallVecFuncIdx == Apply("vec_FuncIdx", slice_wasm_serialize("FuncIdx", call.arg).bytes)
CallStr == Apply("str", str_wasm_serialize(call.arg))
CallLimits == Apply("Limits", Limits_wasm_serialize(call.arg))
CallMut == Apply("Mut", Mut_wasm_serialize(call.arg))
CallImportDesc == Apply("ImportDesc", ImportDesc_wasm_serialize(call.arg))
CallExportDesc == Apply("ExportDesc", ExportDesc_wasm_serialize(call.arg))
CallFuncType == Apply("FuncType", FuncType_wasm_serialize(call.arg))
CallElemType == Apply("ElemType", ElemType_wasm_serialize(call.arg))
CallRootValType == Apply("root_ValType", root_ValType_wasm_serialize(call.arg))

NextPure ==
    \/ CallLebU32
    \/ CallLebU64
    \/ CallLebI32
    \/ CallLebI64
    \/ CallRootLebU32
    \/ CallRootLebI32
    \/ CallVecValType
    \/ CallVecFuncIdx
    \/ CallStr
    \/ CallLimits
    \/ CallMut
    \/ CallImportDesc
    \/ CallExportDesc
    \/ CallFuncType
    \/ CallElemType
    \/ CallRootValType

SpecPure == InitPure /\ [][NextPure]_vars

\* A program is at hand and no pass has run on it yet.
InitOpt ==
    /\ call = NoCall
    /\ ret = NotReturned
    /\ module = EmptyModule
    /\ receiver = <<>>
    /\ status = "idle"
    /\ previous = <<>>
    /\ program \in Programs
    /\ passes = <<>>
    /\ scratch = Scratch_new(<<>>)
    /\ calls = <<>>
    /\ scope = "open"
    /\ entry = "none"
    /\ pc = "start"
    /\ ran = <<>>
    /\ result = NoResult

\* let (p1, c1) = optimize(p)
Optimize ==
    /\ passes = <<>>
    /\ passes' = <<optimize(program)>>
    /\ UNCHANGED <<pureVars, serVars, program, scratchVars, pipeVars>>

\* let (p2, c2) = optimize(p1)
OptimizeAgain ==
    /\ passes # <<>>
    /\ Len(passes) < MaxPasses
    /\ passes' = Append(passes, optimize(passes[Len(passes)].program))
    /\ UNCHANGED <<pureVars, serVars, program, scratchVars, pipeVars>>

NextOpt ==
    \/ Optimize
    \/ OptimizeAgain

SpecOpt == InitOpt /\ [][NextOpt]_vars

\* Scratch::new(locals_builder), at the start of a function.
InitScratch ==
    /\ call = NoCall
    /\ ret = NotReturned
    /\ module = EmptyModule
    /\ receiver = <<>>
    /\ status = "idle"
    /\ previous = <<>>
    /\ program = NoProgram
    /\ passes = <<>>
    /\ scratch = Scratch_new(<<>>)
    /\ calls = <<>>
    /\ scope = "open"
    /\ entry = "none"
    /\ pc = "start"
    /\ ran = <<>>
    /\ result = NoResult

NextScratch ==
    \/ push_i32
    \/ push_i64
    \/ push_f32
    \/ push_f64
    \/ pop_i32
    \/ pop_i64
    \/ pop_f32
    \/ pop_f64
    \/ ScratchDropped

SpecScratch == InitScratch /\ [][NextScratch]_vars

---------------------------------------------------------------------------
(* The entry points of source-compiler: compile (lib.rs) and main          *)
(* (main.rs). The front-end and the back-end are other crates: of them the *)
(* model keeps whether they returned Ok or Err and the module they built.  *)

\* What run_backend may hand over: any module, one with a function body
\* that was registered and never committed included.
BackendModules ==
    {[EmptyModule EXCEPT !.export_section = [content |-> ex],
                         !.start_section = [start |-> st],
                         !.code_section = [content |-> co],
                         !.data_section = [content |-> da]] :
        ex \in ExportChoices, st \in StartChoices, co \in CodeChoices,
        da \in DataChoices}

Stage(name, ok) == [stage |-> name, ok |-> ok]

\* A panic unwinds out of main: the process ends with the exit code that
\* the Rust runtime gives to a panic, 101.
ExitByPanic(r) == [r EXCEPT !.exit_code = Some(101)]

InitPipe ==
    /\ call = NoCall
    /\ ret = NotReturned
    /\ module = EmptyModule
    /\ receiver = <<>>
    /\ status = "idle"
    /\ previous = <<>>
    /\ program = NoProgram
    /\ passes = <<>>
    /\ scratch = Scratch_new(<<>>)
    /\ calls = <<>>
    /\ scope = "open"
    /\ entry \in {"compile", "main"}
    /\ pc = "start"
    /\ ran = <<>>
    /\ result = NoResult

PipeUnchanged == UNCHANGED <<pureVars, previous, optVars, scratchVars, entry>>

\* A variant of compile that goes on to the back-end when the front-end failed.
CompileRunFrontend_GoesOnAfterErr ==
    /\ entry = "compile"
    /\ pc = "start"
    /\ \E ok \in BOOLEAN :
          /\ ran' = Append(ran, Stage("run_frontend", ok))
          /\ pc' = "frontend_done"
          /\ result' = result
    /\ UNCHANGED <<module, receiver, status>>
    /\ PipeUnchanged

\* compile: match frontend_estree::run_frontend(source_code, MainLogger {});
\* Err(()) => Box::new([])
CompileRunFrontend ==
    /\ entry = "compile"
    /\ pc = "start"
    /\ \E ok \in BOOLEAN :
          /\ ran' = Append(ran, Stage("run_frontend", ok))
          /\ pc' = IF ok THEN "frontend_done" ELSE "returned"
          /\ result' = IF ok THEN result ELSE [result EXCEPT !.returned = Some(<<>>)]
    /\ UNCHANGED <<module, receiver, status>>
    /\ PipeUnchanged

\* main: let _ = io::stdin().read(&mut [0u8]).unwrap();
MainReadStdin ==
    /\ entry = "main"
    /\ pc = "start"
    /\ \E ok \in BOOLEAN :
          /\ ran' = Append(ran, Stage("stdin_read", ok))
          /\ pc' = IF ok THEN "stdin_read" ELSE "exited"
          /\ result' = IF ok THEN result
                       ELSE ExitByPanic(result)
    /\ UNCHANGED <<module, receiver, status>>
    /\ PipeUnchanged

\* main: let ir_imports = frontend_estree::parse_imports(IMPORT_SPEC, MainLogger {})?;
MainParseImports ==
    /\ entry = "main"
    /\ pc = "stdin_read"
    /\ \E ok \in BOOLEAN :
          /\ ran' = Append(ran, Stage("parse_imports", ok))
          /\ pc' = IF ok THEN "imports_parsed" ELSE "closure_returned"
    /\ UNCHANGED <<module, receiver, status, result>>
    /\ PipeUnchanged

\* A variant of main that goes on to the back-end when the front-end failed.
MainRunFrontend_GoesOnAfterErr ==
    /\ entry = "main"
    /\ pc = "imports_parsed"
    /\ \E ok \in BOOLEAN :
          /\ ran' = Append(ran, Stage("run_frontend", ok))
          /\ pc' = "frontend_done"
    /\ UNCHANGED <<module, receiver, status, result>>
    /\ PipeUnchanged

\* main: let ir_program = frontend_estree::run_frontend(SOURCE_CODE, ir_imports, MainLogger {})?;
MainRunFrontend ==
    /\ entry = "main"
    /\ pc = "imports_parsed"
    /\ \E ok \in BOOLEAN :
          /\ ran' = Append(ran, Stage("run_frontend", ok))
          /\ pc' = IF ok THEN "frontend_done" ELSE "closure_returned"
    /\ UNCHANGED <<module, receiver, status, result>>
    /\ PipeUnchanged

\* let wasm_module = backend_wasm::run_backend(&ir_program, Options::default());
RunBackend ==
    /\ entry \in {"compile", "main"}
    /\ pc = "frontend_done"
    /\ module' \in BackendModules
    /\ ran' = Append(ran, Stage("run_backend", TRUE))
    /\ pc' = "backend_done"
    /\ UNCHANGED <<receiver, status, result>>
    /\ PipeUnchanged

\* let mut receiver = Vec::<u8>::new(); wasm_module.wasm_serialize(&mut receiver);
\* A panic leaves compile without a return value and ends main.
PipeWasmSerialize ==
    /\ entry \in {"compile", "main"}
    /\ pc = "backend_done"
    /\ LET r == WasmModule_wasm_serialize(module)
       IN  /\ receiver' = r.bytes
           /\ status' = IF r.ok THEN "done" ELSE "panic"
           /\ ran' = Append(ran, Stage("wasm_serialize", r.ok))
           /\ pc' = IF r.ok THEN "serialized"
                    ELSE IF entry = "main" THEN "exited" ELSE "panicked"
           /\ result' = IF r.ok \/ entry = "compile" THEN result
                        ELSE ExitByPanic(result)
    /\ UNCHANGED module
    /\ PipeUnchanged

\* compile: receiver.into_boxed_slice()
CompileReturn ==
    /\ entry = "compile"
    /\ pc = "serialized"
    /\ result' = [result EXCEPT !.returned = Some(receiver)]
    /\ pc' = "returned"
    /\ UNCHANGED <<module, receiver, status, ran>>
    /\ PipeUnchanged

\* main: let mut file = std::fs::File::create("out.wasm").unwrap();
MainCreateFile ==
    /\ entry = "main"
    /\ pc = "serialized"
    /\ \E ok \in BOOLEAN :
          /\ ran' = Append(ran, Stage("create", ok))
          /\ pc' = IF ok THEN "file_created" ELSE "exited"
          /\ result' = IF ok THEN [result EXCEPT !.out_wasm = Some(<<>>)]
                       ELSE ExitByPanic(result)
    /\ UNCHANGED <<module, receiver, status>>
    /\ PipeUnchanged

\* main: file.write_all(&receiver).unwrap(); an error may leave a part of
\* the bytes in the file.
MainWriteAll ==
    /\ entry = "main"
    /\ pc = "file_created"
    /\ \E ok \in BOOLEAN :
          /\ ran' = Append(ran, Stage("write_all", ok))
          /\ pc' = IF ok THEN "closure_returned" ELSE "exited"
          /\ IF ok THEN result' = [result EXCEPT !.out_wasm = Some(receiver)]
             ELSE \E k \in {0, Len(receiver) - 1} :
                     result' = ExitByPanic(
                                   [result EXCEPT !.out_wasm = Some(SubSeq(receiver, 1, k))])
    /\ UNCHANGED <<module, receiver, status>>
    /\ PipeUnchanged

\* main: `let _ = (|| -> Result<(), ()> { ... })();` and main returns.
MainReturn ==
    /\ entry = "main"
    /\ pc = "closure_returned"
    /\ result' = [result EXCEPT !.exit_code = Some(0)]
    /\ pc' = "exited"
    /\ UNCHANGED <<module, receiver, status, ran>>
    /\ PipeUnchanged

NextPipe ==
    \/ CompileRunFrontend
    \/ MainReadStdin
    \/ MainParseImports
    \/ MainRunFrontend
    \/ RunBackend
    \/ PipeWasmSerialize
    \/ CompileReturn
    \/ MainCreateFile
    \/ MainWriteAll
    \/ MainReturn

SpecPipe == InitPipe /\ [][NextPipe]_vars

\* A module has been built and a receiver is at hand.
Init ==
    /\ call = NoCall
    /\ ret = NotReturned
    /\ module \in LibModules \cup RootModules
    /\ receiver = <<>>
    /\ status = "idle"
    /\ previous = <<>>
    /\ program = NoProgram
    /\ passes = <<>>
    /\ scratch = Scratch_new(<<>>)
    /\ calls = <<>>
    /\ scope = "open"
    /\ entry = "none"
    /\ pc = "start"
    /\ ran = <<>>
    /\ result = NoResult

\* wasm_module.wasm_serialize(&mut receiver), lib-wasmgen
WasmSerialize ==
    /\ status = "idle"
    /\ module.crate = "lib-wasmgen"
    /\ LET r == WasmModule_wasm_serialize(module)
       IN  /\ receiver' = receiver \o r.bytes
           /\ status' = IF r.ok THEN "done" ELSE "panic"
    /\ UNCHANGED <<call, ret, module, previous, otherVars>>

\* module.wasm_serialize(&mut receiver), root crate
RootWasmSerialize ==
    /\ status = "idle"
    /\ module.crate = "root"
    /\ receiver' = receiver \o root_WasmModule_wasm_serialize(module)
    /\ status' = "done"
    /\ UNCHANGED <<call, ret, module, previous, otherVars>>

\* How the run that just ended is remembered.
Outcome == [status |-> status, bytes |-> receiver]

\* The same module is serialized once more, into a new empty Vec.
WasmSerializeAgain ==
    /\ status # "idle"
    /\ module.crate = "lib-wasmgen"
    /\ Len(previous) + 1 < MaxRuns
    /\ previous' = Append(previous, Outcome)
    /\ LET r == WasmModule_wasm_serialize(module)
       IN  /\ receiver' = r.bytes
           /\ status' = IF r.ok THEN "done" ELSE "panic"
    /\ UNCHANGED <<call, ret, module, otherVars>>

RootWasmSerializeAgain ==
    /\ status # "idle"
    /\ module.crate = "root"
    /\ Len(previous) + 1 < MaxRuns
    /\ previous' = Append(previous, Outcome)
    /\ receiver' = root_WasmModule_wasm_serialize(module)
    /\ status' = "done"
    /\ UNCHANGED <<call, ret, module, otherVars>>

Next ==
    \/ WasmSerialize
    \/ RootWasmSerialize
    \/ WasmSerializeAgain
    \/ RootWasmSerializeAgain

Spec == Init /\ [][Next]_vars

---------------------------------------------------------------------------
(* The readers the properties are stated with: LEB128 as the WebAssembly   *)
(* binary format defines its decoding.                                     *)

\* Bit k (0 the least significant) of a byte.
ByteBit(b, k) == (b \div (2^k)) % 2

\* The position of the byte that ends the LEB number at the head of bs:
\* the first byte whose most significant bit is clear (0: there is none).
LebEnd(bs) ==
    IF \E k \in 1..Len(bs) : bs[k] < 128
    THEN CHOOSE k \in 1..Len(bs) :
            bs[k] < 128 /\ \A j \in 1..(k-1) : bs[j] >= 128
    ELSE 0

\* Unsigned decoding at width w: byte k gives bits 7(k-1)..7(k-1)+6, the
\* bits above the last byte are 0.
DecodeUnsigned(bs, w) ==
    [i \in 1..w |->
        IF (i-1) \div 7 < LebEnd(bs)
        THEN ByteBit(bs[((i-1) \div 7) + 1], (i-1) % 7) ELSE 0]

\* Signed decoding at width w: the bits above the last byte repeat bit 6 of
\* the last byte.
DecodeSigned(bs, w) ==
    [i \in 1..w |->
        IF (i-1) \div 7 < LebEnd(bs)
        THEN ByteBit(bs[((i-1) \div 7) + 1], (i-1) % 7)
        ELSE ByteBit(bs[LebEnd(bs)], 6)]

\* The number an unsigned LEB of at most four bytes stands for.
RECURSIVE NatOfLeb(_)
NatOfLeb(bs) ==
    IF bs = <<>> THEN 0 ELSE (Head(bs) % 128) + 128 * NatOfLeb(Tail(bs))

\* Bit i-1 of x, with zeros / the sign above the width.
UBit(x, i) == IF i <= Len(x) THEN x[i] ELSE 0
SBit(x, i) == IF i <= Len(x) THEN x[i] ELSE x[Len(x)]

\* The integer a bit vector stands for when it fits 31 signed bits.
Fits31(x) == \A i \in 31..Len(x) : x[i] = x[Len(x)]
RECURSIVE SumBits(_, _)
SumBits(x, n) == IF n = 0 THEN 0 ELSE x[n] * (2^(n-1)) + SumBits(x, n - 1)
IntOf(x) == SumBits(x, 30) - x[Len(x)] * (2^30)

UnsignedFns == {"leb_u32", "leb_u64", "root_leb_u32"}
SignedFns == {"leb_i32", "leb_i64", "root_leb_i32"}
I32Fns == {"leb_i32", "root_leb_i32"}

---------------------------------------------------------------------------
(* Properties of the LEB encoders, under SpecPure.                         *)

\* C4: decoding what leb_serialize wrote gives the value back: the whole
\* output is one LEB number, and its unsigned (u32, u64) resp. signed
\* (i32, i64) decoding at the width of the type is the argument.
C4_LebRoundTrip ==
    ret.done =>
        /\ call.fn \in UnsignedFns =>
              /\ LebEnd(ret.bytes) = Len(ret.bytes)
              /\ DecodeUnsigned(ret.bytes, Len(call.arg)) = call.arg
        /\ call.fn \in SignedFns =>
              /\ LebEnd(ret.bytes) = Len(ret.bytes)
              /\ DecodeSigned(ret.bytes, Len(call.arg)) = call.arg

\* A negative i64 below -2^35 and a u32 with its top bit set have been
\* encoded, in six and in five bytes.
C4_Witness ==
    /\ ret.done
    /\ \/ call.fn = "leb_i64" /\ call.arg = Not(Ones(36, 64)) /\ Len(ret.bytes) = 6
       \/ call.fn = "leb_u32" /\ call.arg = Top(32, 32) /\ Len(ret.bytes) = 5

\* C5: an unsigned value is written in at least one byte; byte k carries
\* bits 7k..7k+6 (k from 0) in its low seven bits; every byte but the last
\* has its top bit set and the last has it clear; the output ends with the
\* first byte above which no set bit of the value remains.  So 0..127 take
\* one byte and 128..16383 take two.
C5_UnsignedLayout ==
    (ret.done /\ call.fn \in UnsignedFns) =>
        LET x == call.arg
            bs == ret.bytes
            n == Len(bs)
            Remaining(k) == \E i \in (7*k + 1)..Len(x) : x[i] = 1
        IN  /\ n >= 1
            /\ \A k \in 1..n :
                  /\ \A j \in 0..6 : ByteBit(bs[k], j) = UBit(x, 7*(k-1) + j + 1)
                  /\ ByteBit(bs[k], 7) = (IF k < n THEN 1 ELSE 0)
                  /\ bs[k] \in 0..255
            /\ ~Remaining(n)
            /\ \A k \in 1..(n-1) : Remaining(k)
            /\ Fits31(x) /\ IntOf(x) \in 0..127 => n = 1
            /\ Fits31(x) /\ IntOf(x) \in 128..16383 => n = 2

\* 2^14 - 1 has been written in two bytes and 2^14 in three.
C5_Witness ==
    /\ ret.done
    /\ call.fn = "leb_u32"
    /\ \/ call.arg = Ones(14, 32) /\ ret.bytes = <<255, 127>>
       \/ call.arg = Top(15, 32) /\ ret.bytes = <<128, 128, 1>>

\* C6: the last byte of a signed value has bit 7 clear and bit 6 equal to
\* the sign of the value; and the loop ends at the first iteration k whose
\* remaining value (the argument shifted right arithmetically by 7k) is 0
\* with bit 6 of the byte clear, or -1 with bit 6 of the byte set.
C6_SignedTermination ==
    (ret.done /\ call.fn \in SignedFns) =>
        LET x == call.arg
            bs == ret.bytes
            n == Len(bs)
            w == Len(x)
            RemIsZero(k) == \A i \in 1..w : SBit(x, i + 7*k) = 0
            RemIsMinusOne(k) == \A i \in 1..w : SBit(x, i + 7*k) = 1
            BitSix(k) == SBit(x, 7*(k-1) + 7)
            Stops(k) == \/ RemIsZero(k) /\ BitSix(k) = 0
                        \/ RemIsMinusOne(k) /\ BitSix(k) = 1
        IN  /\ n >= 1
            /\ ByteBit(bs[n], 7) = 0
            /\ ByteBit(bs[n], 6) = x[w]
            /\ Fits31(x) => ((ByteBit(bs[n], 6) = 1) <=> (IntOf(x) < 0))
            /\ \A k \in 1..n :
                  /\ \A j \in 0..6 : ByteBit(bs[k], j) = SBit(x, 7*(k-1) + j + 1)
                  /\ Stops(k) <=> (k = n)

\* The least i64 and the greatest i32 have been encoded.
C6_Witness ==
    /\ ret.done
    /\ \/ call.fn = "leb_i64" /\ call.arg = Top(64, 64) /\ Len(ret.bytes) = 10
       \/ call.fn = "leb_i32" /\ call.arg = Ones(31, 32) /\ Len(ret.bytes) = 5

\* x lies in -2^(7n-1) .. 2^(7n-1) - 1: the bits from bit 7n-1 up all equal
\* the sign.
FitsBytes(x, n) == \A i \in (7*n)..Len(x) : x[i] = x[Len(x)]

\* C7: a signed value is written in exactly the least number n >= 1 of bytes
\* with -2^(7n-1) <= x < 2^(7n-1); the last byte of a negative value is in
\* 0x40..0x7F; and -64, -65, 63, 64 as i32 give [0x40], [0xBF,0x7F], [0x3F],
\* [0xC0,0x00].
C7_SignedMinimal ==
    (ret.done /\ call.fn \in SignedFns) =>
        LET x == call.arg
            bs == ret.bytes
            n == Len(bs)
        IN  /\ n >= 1
            /\ FitsBytes(x, n)
            /\ \A m \in 1..(n-1) : ~FitsBytes(x, m)
            /\ (Fits31(x) /\ n <= 4) =>
                  /\ 0 - (2^(7*n - 1)) <= IntOf(x)
                  /\ IntOf(x) < 2^(7*n - 1)
            /\ (Fits31(x) /\ n >= 2 /\ n <= 5) =>
                  \/ IntOf(x) < 0 - (2^(7*(n-1) - 1))
                  \/ IntOf(x) >= 2^(7*(n-1) - 1)
            /\ x[Len(x)] = 1 => bs[n] \in 64..127
            /\ x[Len(x)] = 0 => bs[n] \in 0..63
            /\ call.fn \in I32Fns =>
                  /\ x = BitsOf(0 - 64, 32) => bs = <<64>>
                  /\ x = BitsOf(0 - 65, 32) => bs = <<191, 127>>
                  /\ x = BitsOf(63, 32) => bs = <<63>>
                  /\ x = BitsOf(64, 32) => bs = <<192, 0>>

\* -65 and 64 have been encoded as i32, each in two bytes.
C7_Witness ==
    /\ ret.done
    /\ call.fn = "leb_i32"
    /\ Len(ret.bytes) = 2
    /\ \/ call.arg = BitsOf(0 - 65, 32)
       \/ call.arg = BitsOf(64, 32)

---------------------------------------------------------------------------
(* Properties of the containers, under SpecPure.                           *)

VecFns == {"vec_ValType", "vec_FuncIdx"}
ElemTypeOf(fn) == IF fn = "vec_ValType" THEN "ValType" ELSE "FuncIdx"

\* The serializations of elements i..j of v, in index order.
RECURSIVE ConcatElems(_, _, _, _)
ConcatElems(T, v, i, j) ==
    IF i > j THEN <<>>
    ELSE IF i = j THEN wasm_serialize(T, v[i]).bytes
    ELSE LET mid == (i + j) \div 2
         IN  ConcatElems(T, v, i, mid) \o ConcatElems(T, v, mid + 1, j)

\* C9: a vector of n elements is written as the unsigned LEB of n, then the
\* serializations of the elements in index order, and nothing else; the
\* empty vector is the single byte 0.
C9_VecLayout ==
    (ret.done /\ call.fn \in VecFns) =>
        LET v == call.arg
            bs == ret.bytes
            p == LebEnd(bs)
        IN  /\ p >= 1
            /\ NatOfLeb(SubSeq(bs, 1, p)) = Len(v)
            /\ p = (IF Len(v) < 128 THEN 1 ELSE 2)
            /\ SubSeq(bs, p + 1, Len(bs)) = ConcatElems(ElemTypeOf(call.fn), v, 1, Len(v))
            /\ v = <<>> => bs = <<0>>
            /\ call.fn = "vec_ValType" =>
                  /\ v = <<"I32">> => bs = <<1, 127>>
                  /\ v = <<"I32", "F32">> => bs = <<2, 127, 125>>

\* A vector of two different indices, the second of two bytes, and a vector
\* of 128 value types have been written.
C9_Witness ==
    /\ ret.done
    /\ \/ call.fn = "vec_FuncIdx" /\ call.arg = <<[idx |-> 0], [idx |-> 200]>>
            /\ ret.bytes = <<2, 0, 200, 1>>
       \/ call.fn = "vec_ValType" /\ Len(call.arg) = 128
            /\ Len(ret.bytes) = 130

\* C10: a string is written as the unsigned LEB of the length of its UTF-8
\* bytes, then exactly those bytes in order; the empty string is the single
\* byte 0.
C10_StrLayout ==
    (ret.done /\ call.fn = "str") =>
        LET str == call.arg
            bs == ret.bytes
            p == LebEnd(bs)
        IN  /\ p >= 1
            /\ NatOfLeb(SubSeq(bs, 1, p)) = Len(bs) - p
            /\ p = (IF Len(bs) - p < 128 THEN 1 ELSE 2)
            /\ SubSeq(bs, p + 1, Len(bs)) = as_bytes(str)
            /\ str = <<>> => bs = <<0>>
            /\ str = <<97>> => bs = <<1, 97>>
            /\ str = <<116, 101, 115, 116>> => bs = <<4, 116, 101, 115, 116>>
            /\ str = <<233>> => bs = <<2, 195, 169>>
            /\ str = <<8364>> => bs = <<3, 226, 130, 172>>
            /\ str = <<128512>> => bs = <<4, 240, 159, 152, 128>>

\* A string of two chars and five bytes, and one of 33 chars and 129 bytes,
\* have been written.
C10_Witness ==
    /\ ret.done
    /\ call.fn = "str"
    /\ \/ call.arg = <<233, 8364>> /\ ret.bytes = <<5, 195, 169, 226, 130, 172>>
       \/ Len(call.arg) = 33 /\ Len(ret.bytes) = 2 + 129

---------------------------------------------------------------------------
(* A reader of the binary format, and what the module holds per section.   *)

Header == <<0, 97, 115, 109, 1, 0, 0, 0>>

\* The sections a reader finds in bs: it takes an id byte, the LEB length L,
\* skips L bytes, and goes on; ok when it lands exactly on the end.
RECURSIVE ReadSections(_)
ReadSections(bs) ==
    IF bs = <<>> THEN [ok |-> TRUE, secs |-> <<>>]
    ELSE LET p == LebEnd(Tail(bs))
             L == NatOfLeb(SubSeq(bs, 2, 1 + p))
         IN  IF p = 0 \/ 1 + p + L > Len(bs)
             THEN [ok |-> FALSE, secs |-> <<>>]
             ELSE LET rest == ReadSections(SubSeq(bs, 2 + p + L, Len(bs)))
                  IN  [ok |-> rest.ok,
                       secs |-> <<[id |-> bs[1], lenBytes |-> p, len |-> L,
                                   body |-> SubSeq(bs, 2 + p, 1 + p + L)]>>
                                \o rest.secs]

\* What follows the header in the receiver.
AfterHeader == SubSeq(receiver, Len(Header) + 1, Len(receiver))

SectionIds(secs) == [i \in 1..Len(secs) |-> secs[i].id]

StrictlyIncreasing(ids) ==
    \A i \in 1..Len(ids) : \A j \in 1..Len(ids) : i < j => ids[i] < ids[j]

IsLib == module.crate = "lib-wasmgen"

\* The element type and the content of a vector-backed section.
SectionElemType(id) ==
    CASE id = 1 -> "FuncType" [] id = 2 -> "Import" [] id = 3 -> "TypeIdx"
      [] id = 4 -> "Table" [] id = 5 -> "Mem" [] id = 6 -> "Global"
      [] id = 7 -> "Export" [] id = 9 -> "Elem" [] id = 10 -> "Code"
      [] id = 11 -> "Data"

SectionContent(id) ==
    IF IsLib
    THEN CASE id = 1 -> module.type_section.content
           [] id = 2 -> module.import_section.content
           [] id = 3 -> module.func_section.content
           [] id = 4 -> module.table_section.content
           [] id = 5 -> module.mem_section.content
           [] id = 6 -> module.global_section.content
           [] id = 7 -> module.export_section.content
           [] id = 9 -> module.elem_section.content
           [] id = 10 -> module.code_section.content
           [] id = 11 -> module.data_section.content
    ELSE IF id = 1 THEN module.type_section.data.vec ELSE <<>>

StartIsSet == IsLib /\ module.start_section.start.some

\* The section has something to say: a start function for the Start
\* section, a non-empty content for the others.
HasContent(id) ==
    IF id = 8 THEN StartIsSet ELSE SectionContent(id) # <<>>

\* body is the content of section id: the function index for Start, the
\* LEB of the number of elements and then the elements for the others.
IsContentOf(body, id) ==
    IF id = 8
    THEN /\ StartIsSet
         /\ LebEnd(body) = Len(body)
         /\ NatOfLeb(body) = module.start_section.start.val.idx
    ELSE LET v == SectionContent(id)
             p == LebEnd(body)
         IN  /\ p >= 1
             /\ NatOfLeb(SubSeq(body, 1, p)) = Len(v)
             /\ SubSeq(body, p + 1, Len(body)) =
                   (IF IsLib THEN ConcatElems(SectionElemType(id), v, 1, Len(v))
                    ELSE root_VecFuncType_elems(v))

UncommittedCode ==
    /\ IsLib
    /\ \E i \in 1..Len(module.code_section.content) :
          ~module.code_section.content[i].func.some

---------------------------------------------------------------------------
(* Properties of the module serializer, under Spec.                        *)

\* C1: wasm_serialize ends in the internal-consistency panic when some Code
\* entry is still None, and returns when every Code entry is Some(bytes).
C1_PanicIffUncommitted ==
    status # "idle" =>
        /\ UncommittedCode => status = "panic"
        /\ ~UncommittedCode => status = "done"

\* A module whose second body was never committed has been serialized.
C1_Witness ==
    /\ status = "panic"
    /\ module.code_section.content = <<Committed, Uncommitted>>

\* C2: what wasm_serialize wrote begins with 00 61 73 6D 01 00 00 00, and the
\* section ids that follow are within 1..11 and strictly increasing (so each
\* appears at most once); when it panicked, the last id written is 10 and
\* the sections before it are complete.
C2_HeaderAndOrder ==
    status # "idle" =>
        /\ Len(receiver) >= 8
        /\ SubSeq(receiver, 1, 8) = <<0, 97, 115, 109, 1, 0, 0, 0>>
        /\ status = "done" =>
              LET r == ReadSections(AfterHeader)
              IN  /\ r.ok
                  /\ \A i \in 1..Len(r.secs) : r.secs[i].id \in 1..11
                  /\ StrictlyIncreasing(SectionIds(r.secs))
        /\ status = "panic" =>
              LET r == ReadSections(SubSeq(receiver, 9, Len(receiver) - 1))
              IN  /\ r.ok
                  /\ \A i \in 1..Len(r.secs) : r.secs[i].id \in 1..11
                  /\ StrictlyIncreasing(SectionIds(r.secs) \o <<10>>)
                  /\ receiver[Len(receiver)] = 10

\* All eleven sections have been written.
C2_Witness ==
    /\ status = "done"
    /\ SectionIds(ReadSections(AfterHeader).secs) = <<1, 2, 3, 4, 5, 6, 7, 8, 9, 10, 11>>

\* C3: a section whose content is empty puts no byte into the output, and
\* the Start section is written exactly when a start function is set: the
\* sections a reader finds are those that have content, and a module with
\* no content at all is written as the eight header bytes.
C3_EmptySectionWritesNothing ==
    status = "done" =>
        LET r == ReadSections(AfterHeader)
        IN  /\ r.ok
            /\ \A id \in 1..11 :
                  (\E i \in 1..Len(r.secs) : r.secs[i].id = id) <=> HasContent(id)
            /\ (\A id \in 1..11 : ~HasContent(id)) => receiver = Header

\* The same, of the serializer of lib-wasmgen alone.
LibEmptySectionWritesNothing == IsLib => C3_EmptySectionWritesNothing

\* C8: every section written is its id byte, the unsigned LEB of L, and
\* exactly L bytes that are the section's content (the count and the
\* elements, or the start function's index), so that a reader skipping L
\* bytes after each length lands on the next id or on the end.
C8_SectionLayout ==
    status = "done" =>
        LET r == ReadSections(AfterHeader)
        IN  /\ r.ok
            /\ \A i \in 1..Len(r.secs) :
                  /\ r.secs[i].id \in 1..11
                  /\ r.secs[i].len = Len(r.secs[i].body)
                  /\ r.secs[i].lenBytes = (IF r.secs[i].len < 128 THEN 1 ELSE 2)
                  /\ IsContentOf(r.secs[i].body, r.secs[i].id)

\* A module with a start function and a data section of more than 127
\* bytes has been written.
C8_Witness ==
    /\ status = "done"
    /\ StartIsSet
    /\ LET r == ReadSections(AfterHeader)
       IN  /\ r.ok
           /\ \E i \in 1..Len(r.secs) : r.secs[i].id = 8 /\ r.secs[i].len = 1
           /\ \E i \in 1..Len(r.secs) : r.secs[i].id = 11 /\ r.secs[i].len > 127

---------------------------------------------------------------------------
(* Tag bytes, under SpecPure.                                              *)

\* The tag byte the format gives to a variant of an entity kind.
TagOf(fn, arg) ==
    CASE fn = "Limits" -> (IF arg.tag = "Unbounded" THEN 0 ELSE 1)
      [] fn = "Mut" -> (IF arg = "Const" THEN 0 ELSE 1)
      [] fn \in {"ImportDesc", "ExportDesc"} ->
            (CASE arg.tag = "Func" -> 0 [] arg.tag = "Table" -> 1
               [] arg.tag = "Mem" -> 2 [] arg.tag = "Global" -> 3)
      [] fn = "FuncType" -> 96
      [] fn = "ElemType" -> 112
      [] fn = "root_ValType" ->
            (CASE arg = "I32" -> 127 [] arg = "I64" -> 126
               [] arg = "F32" -> 125 [] arg = "F64" -> 124)

\* The variant of an entity: what its tag has to tell apart.
VariantOf(fn, arg) ==
    CASE fn \in {"Limits", "ImportDesc", "ExportDesc"} -> arg.tag
      [] fn \in {"Mut", "ElemType", "root_ValType"} -> arg
      [] fn = "FuncType" -> "FuncType"

TaggedFns ==
    {"Limits", "Mut", "ImportDesc", "ExportDesc", "FuncType", "ElemType", "root_ValType"}

\* bs is exactly the unsigned LEBs of the numbers in ns, one after another.
RECURSIVE IsLebs(_, _)
IsLebs(bs, ns) ==
    IF ns = <<>> THEN bs = <<>>
    ELSE LET p == LebEnd(bs)
         IN  /\ p >= 1
             /\ NatOfLeb(SubSeq(bs, 1, p)) = Head(ns)
             /\ IsLebs(SubSeq(bs, p + 1, Len(bs)), Tail(ns))

\* C11: every tagged entity is written with its fixed tag byte first
\* (Limits 0/1, Mut 0/1, ImportDesc and ExportDesc 0..3, FuncType 0x60,
\* ElemType 0x70, value types 0x7F/0x7E/0x7D/0x7C); Limits are followed by
\* min, and by max only when bounded; Mut, ElemType and value types are the
\* tag alone; and two entities of one kind that were written with the same
\* first byte are the same variant.
C11_TagBytes ==
    (ret.done /\ call.fn \in TaggedFns) =>
        /\ Len(ret.bytes) >= 1
        /\ ret.bytes[1] = TagOf(call.fn, call.arg)
        /\ call.fn = "Limits" =>
              IsLebs(Tail(ret.bytes),
                     IF call.arg.tag = "Bounded"
                     THEN <<call.arg.min, call.arg.max>> ELSE <<call.arg.min>>)
        /\ call.fn \in {"Mut", "ElemType", "root_ValType"} => Len(ret.bytes) = 1
        /\ call.fn \in {"ImportDesc", "ExportDesc"} => Len(ret.bytes) >= 2
        /\ \A other \in Calls :
              (other.fn = call.fn /\ VariantOf(other.fn, other.arg) # VariantOf(call.fn, call.arg))
                  => TagOf(other.fn, other.arg) # ret.bytes[1]

\* A bounded limit whose min is written like the tag of the other variant
\* has been serialized.
C11_Witness ==
    /\ ret.done
    /\ call.fn = "Limits"
    /\ call.arg = [tag |-> "Bounded", min |-> 0, max |-> 200]
    /\ ret.bytes = <<1, 0, 200, 1>>

---------------------------------------------------------------------------
(* Determinism of the module serializer, under Spec.                       *)

C27_PanicLeavesPrefix ==
    (IsLib /\ status = "panic") =>
        /\ Len(receiver) >= 9
        /\ SubSeq(receiver, 1, 8) = Header
        /\ receiver[Len(receiver)] = 10
        /\ LET r == ReadSections(SubSeq(receiver, 9, Len(receiver) - 1))
           IN  /\ r.ok
               /\ SectionIds(r.secs) =
                     SelectSeq(<<1, 2, 3, 4, 5, 6, 7, 8, 9>>, HasContent)
               /\ \A i \in 1..Len(r.secs) :
                     IsContentOf(r.secs[i].body, r.secs[i].id)

\* A module with a type, a committed body before the uncommitted one and a
\* data segment has panicked: the receiver ends with the Type section and
\* the byte 10.
C27_Witness ==
    /\ IsLib
    /\ status = "panic"
    /\ module.type_section.content # <<>>
    /\ module.code_section.content = <<Committed, Uncommitted>>
    /\ module.data_section.content # <<>>
    /\ Len(receiver) > 9
    /\ receiver[Len(receiver)] = 10

---------------------------------------------------------------------------
(* Properties of the unreachable-code pass, under SpecOpt.                 *)

IsNone(e) == ~e.vartype.some

\* out is what the Sequence rule makes of in, at every Sequence of the tree:
\* the elements are those of the input in order, each one optimized, up to
\* and including the first whose vartype is then None, and the vartype of
\* the Sequence is that of the last element kept.
RECURSIVE SeqRule(_, _)
SeqRule(in, out) ==
    /\ out.kind = in.kind
    /\ IF in.kind = "Sequence"
       THEN LET n == Len(out.children)
            IN  /\ n <= Len(in.children)
                /\ \A i \in 1..n : SeqRule(in.children[i], out.children[i])
                /\ \A i \in 1..(n - 1) : ~IsNone(out.children[i])
                /\ n < Len(in.children) => (n >= 1 /\ IsNone(out.children[n]))
                /\ n >= 1 => out.vartype = out.children[n].vartype
       ELSE /\ Len(out.children) = Len(in.children)
            /\ \A i \in 1..Len(in.children) : SeqRule(in.children[i], out.children[i])

\* The pass ran on every function of the program, and on nothing else.
SameFuncs(p, q) == Len(q.funcs) = Len(p.funcs)

\* C13: in every Sequence, optimize keeps the elements in order up to and
\* including the first one whose vartype is None once it has been optimized
\* itself, drops the ones after it, adds none, and gives the Sequence the
\* vartype of the last element it kept.
C13_SequenceRule ==
    passes # <<>> =>
        /\ SameFuncs(program, passes[1].program)
        /\ \A f \in 1..Len(program.funcs) :
              SeqRule(program.funcs[f].expr, passes[1].program.funcs[f].expr)

\* A Sequence whose first element is a Sequence that became None in the
\* pass has lost its second element.
C13_Witness ==
    /\ passes # <<>>
    /\ program = [funcs |-> <<[expr |->
          Sequence(Some("Any"), <<Sequence(Some("Any"), <<Trap, VarName>>), VarName>>)]>>]
    /\ passes[1].program = [funcs |-> <<[expr |->
          Sequence(None, <<Sequence(None, <<Trap>>)>>)]>>]

\* C14: a further pass over the result of optimize returns the same program
\* (same tree, same vartype on every node) and reports changed = false.
C14_Idempotent ==
    \A i \in 2..Len(passes) :
        /\ passes[i].program = passes[1].program
        /\ ~passes[i].changed

\* The pass has run twice on a program that the first pass changed through
\* an inner Sequence under a Declaration.
C14_Witness ==
    /\ Len(passes) = 2
    /\ passes[1].changed
    /\ \E i \in 1..Len(program.funcs[1].expr.children) :
          program.funcs[1].expr.children[i] =
             Declaration(Some("Any"), Sequence(Some("Any"), <<Return(VarName), VarName>>))

\* out is in with nothing removed but elements of a Sequence that follow an
\* element which is kept and whose vartype is None.
RECURSIVE OnlyDeadRemoved(_, _)
OnlyDeadRemoved(in, out) ==
    /\ out.kind = in.kind
    /\ Len(out.children) <= Len(in.children)
    /\ \A i \in 1..Len(out.children) : OnlyDeadRemoved(in.children[i], out.children[i])
    /\ Len(out.children) < Len(in.children) =>
          /\ in.kind = "Sequence"
          /\ \E i \in 1..Len(out.children) : IsNone(out.children[i])

\* C15: whatever optimize removes was an element of a Sequence and came
\* after an element of that Sequence that is kept and has vartype None;
\* nothing else is removed.
C15_Sound ==
    passes # <<>> =>
        /\ SameFuncs(program, passes[1].program)
        /\ \A f \in 1..Len(program.funcs) :
              OnlyDeadRemoved(program.funcs[f].expr, passes[1].program.funcs[f].expr)

\* The second Return of g has been removed.
C15_Witness ==
    /\ passes # <<>>
    /\ program = [funcs |-> <<FuncG>>]
    /\ passes[1].program = [funcs |-> <<[expr |-> Sequence(None, <<Return(PrimNumber)>>)]>>]

\* C16: changed is true when the pass dropped an element or updated the
\* vartype of a Declaration or of a Sequence, and false only when the
\* program returned is the program given; for g, one Return is left and
\* changed is true.
C16_ChangedFlag ==
    passes # <<>> =>
        /\ passes[1].changed <=> (passes[1].program # program)
        /\ program = [funcs |-> <<FuncG>>] =>
              (passes[1].changed /\ Len(passes[1].program.funcs[1].expr.children) = 1)

\* Every Declaration and every Sequence of e already has the vartype the
\* pass would give it if it kept all the children.
RECURSIVE VartypesPropagated(_)
VartypesPropagated(e) ==
    /\ \A i \in 1..Len(e.children) : VartypesPropagated(e.children[i])
    /\ e.kind = "Declaration" => e.vartype = e.children[1].vartype
    /\ e.kind = "Sequence" =>
          e.vartype = (IF e.children = <<>> THEN None
                       ELSE e.children[Len(e.children)].vartype)

\* The same, of the programs whose vartypes are propagated already.
ChangedFlagWhenPropagated ==
    (\A f \in 1..Len(program.funcs) : VartypesPropagated(program.funcs[f].expr))
        => C16_ChangedFlag

\* The nodes of the tree e, e itself included.
RECURSIVE Nodes(_)
Nodes(e) == {e} \cup UNION {Nodes(e.children[i]) : i \in 1..Len(e.children)}

\* The nodes of all the functions of the program p.
ProgramNodes(p) == UNION {Nodes(p.funcs[f].expr) : f \in 1..Len(p.funcs)}

\* C21: in the program optimize returns, every Declaration has the vartype
\* its initializer has in that program, that is after the initializer was
\* optimized (None when the initializer diverges), whatever vartype the
\* Declaration had in the program given.
C21_DeclarationVartype ==
    passes # <<>> =>
        \A d \in ProgramNodes(passes[1].program) :
            d.kind = "Declaration" => d.vartype = d.children[1].vartype

\* A Declaration typed Any, over a Sequence typed Any that only diverges
\* once the pass has cut it, has come out with vartype None.
C21_Witness ==
    /\ passes # <<>>
    /\ program = [funcs |-> <<[expr |->
          Declaration(Some("Any"), Sequence(Some("Any"), <<VarName, Trap, VarName>>))]>>]
    /\ passes[1].program = [funcs |-> <<[expr |->
          Declaration(None, Sequence(None, <<VarName, Trap>>))]>>]

\* A Declaration typed None over a variable has come out typed Any.
C21_WitnessRetyped ==
    /\ passes # <<>>
    /\ program = [funcs |-> <<[expr |-> Declaration(None, VarName)]>>]
    /\ passes[1].program = [funcs |-> <<[expr |-> Declaration(Some("Any"), VarName)]>>]

\* The kinds of C22: the pass goes into their children and leaves the
\* node as it is.
KeptKinds ==
    {"Conditional", "TypeCast", "PrimAppl", "Appl", "DirectAppl", "Assign",
     "PrimFunc"}

\* Nothing is left for the pass to do in e: no Sequence of e holds an
\* element after one whose vartype is None, and every Declaration and
\* Sequence has the vartype of its (last) child.
Optimized(e) ==
    /\ VartypesPropagated(e)
    /\ \A n \in Nodes(e) :
          n.kind = "Sequence" =>
              \A i \in 1..(Len(n.children) - 1) : ~IsNone(n.children[i])

\* out is in with every node of a kept kind left as it was (kind, vartype,
\* number and order of children), and each child of such a node optimized.
RECURSIVE KeptRule(_, _)
KeptRule(in, out) ==
    /\ out.kind = in.kind
    /\ Len(out.children) <= Len(in.children)
    /\ \A i \in 1..Len(out.children) : KeptRule(in.children[i], out.children[i])
    /\ in.kind \in KeptKinds =>
          /\ out.vartype = in.vartype
          /\ Len(out.children) = Len(in.children)
          /\ \A i \in 1..Len(out.children) : Optimized(out.children[i])

\* C22: a Conditional, TypeCast, PrimAppl, Appl, DirectAppl, Assign or
\* PrimFunc node comes out of optimize with its kind, its vartype and the
\* number and order of its children as they were, each child being the
\* optimized form of the child at the same place, also when a child has
\* vartype None.
C22_KeptNodes ==
    passes # <<>> =>
        /\ SameFuncs(program, passes[1].program)
        /\ \A f \in 1..Len(program.funcs) :
              KeptRule(program.funcs[f].expr, passes[1].program.funcs[f].expr)

\* A Conditional typed Any whose true branch diverges once the pass has cut
\* it is still a Conditional typed Any with three children.
C22_Witness ==
    /\ passes # <<>>
    /\ program = [funcs |-> <<[expr |->
          Expr("Conditional", Some("Any"),
               <<VarName, Sequence(Some("Any"), <<VarName, Trap, VarName>>),
                 Sequence(Some("Any"), <<VarName, VarName>>)>>)]>>]
    /\ passes[1].program = [funcs |-> <<[expr |->
          Expr("Conditional", Some("Any"),
               <<VarName, Sequence(None, <<VarName, Trap>>),
                 Sequence(Some("Any"), <<VarName, VarName>>)>>)]>>]

SameBut(p, q, k) ==
    /\ DOMAIN q = DOMAIN p
    /\ \A x \in DOMAIN p \ {k} : q[x] = p[x]

\* C24: optimize returns the program it was given with the same functions
\* in the same order and every field but the functions' trees as it was
\* (imports, struct types, entry point, result types); the tree of function
\* f is what the pass makes of the tree of function f alone, and changed is
\* true exactly when the pass reports a change for one of the functions.
C24_IntraProcedural ==
    passes # <<>> =>
        LET out == passes[1].program
        IN  /\ SameBut(program, out, "funcs")
            /\ SameFuncs(program, out)
            /\ \A f \in 1..Len(program.funcs) :
                  /\ SameBut(program.funcs[f], out.funcs[f], "expr")
                  /\ out.funcs[f].expr = optimize_expr(program.funcs[f].expr).expr
            /\ passes[1].changed <=>
                  \E f \in 1..Len(program.funcs) :
                      optimize_expr(program.funcs[f].expr).changed

\* A program with imports, struct types and entry point 2, in which the
\* pass cut the first function and left the second alone: the fields are
\* as they were and changed is true.
C24_Witness ==
    /\ passes # <<>>
    /\ program \in FullPrograms
    /\ program.imports # <<>>
    /\ program.struct_types # <<>>
    /\ program.entry_point = 2
    /\ program.funcs[1].result = None
    /\ program.funcs[1].expr = Sequence(Some("Any"), <<VarName, Trap, VarName>>)
    /\ program.funcs[2].expr = VarName
    /\ passes[1].program.funcs[1].expr = Sequence(None, <<VarName, Trap>>)
    /\ passes[1].program.funcs[2] = program.funcs[2]
    /\ passes[1].changed

---------------------------------------------------------------------------
(* Properties of the Scratch pool, under SpecScratch.                      *)

\* The numbers of pushes and of pops of type t among the first n calls.
RECURSIVE Pushes(_, _)
Pushes(t, n) ==
    IF n = 0 THEN 0
    ELSE Pushes(t, n - 1) + (IF calls[n].type = t /\ calls[n].ret.some THEN 1 ELSE 0)

RECURSIVE Pops(_, _)
Pops(t, n) ==
    IF n = 0 THEN 0
    ELSE Pops(t, n - 1) + (IF calls[n].type = t /\ ~calls[n].ret.some THEN 1 ELSE 0)

\* Every pop of type t came after a push of type t that no earlier pop had
\* matched, and there are as many pops as pushes.
Balanced(t) ==
    /\ \A n \in 1..Len(calls) : Pops(t, n) <= Pushes(t, n)
    /\ Pops(t, Len(calls)) = Pushes(t, Len(calls))

\* C17: after calls in which, for each of the four types, every pop has an
\* unmatched push of its type before it and pushes and pops are as many,
\* no assertion has failed and i32_idx, i64_idx, f32_idx and f64_idx are 0.
C17_ScratchBalance ==
    (\A t \in ValTypes : Balanced(t)) =>
        /\ scope # "panic"
        /\ scratch.i32_idx = 0
        /\ scratch.i64_idx = 0
        /\ scratch.f32_idx = 0
        /\ scratch.f64_idx = 0

\* Two pools have been pushed and popped, one inside the other.
C17_Witness ==
    /\ [i \in 1..Len(calls) |-> calls[i].fn] = <<"push_i32", "push_f64", "pop_f64", "pop_i32">>
    /\ scratch.i32_idx = 0
    /\ scratch.f64_idx = 0
    /\ Len(scratch.locals_builder) = 2

\* C18: every imbalance within a function is met by a failed assertion: a
\* pop of a type with no outstanding push fails and leaves the counter as it
\* was, and a function that ends with a push that was never popped has had
\* an assertion fail.
C18_ImbalanceDetected ==
    /\ (\E t \in ValTypes : \E n \in 1..Len(calls) : Pops(t, n) > Pushes(t, n))
          => scope = "panic"
    /\ (scope = "panic") =>
          LET t == calls[Len(calls)].type
          IN  /\ ~calls[Len(calls)].ret.some
              /\ scratch[IdxField(t)] = 0
    /\ (scope = "dropped") => \A t \in ValTypes : Balanced(t)

\* The part of it about pops: a pop of a type with no outstanding push fails
\* the assertion and leaves the counter at 0, and no other call fails.
PopUnderflowAsserts ==
    /\ (\E t \in ValTypes : \E n \in 1..Len(calls) : Pops(t, n) > Pushes(t, n))
          <=> scope = "panic"
    /\ (scope = "panic") =>
          LET t == calls[Len(calls)].type
          IN  /\ ~calls[Len(calls)].ret.some
              /\ Pops(t, Len(calls)) = Pushes(t, Len(calls)) + 1
              /\ scratch[IdxField(t)] = 0

\* The locals of type t that the first n calls pushed and have not popped,
\* oldest first, as the calls returned them.
RECURSIVE Outstanding(_, _)
Outstanding(t, n) ==
    IF n = 0 THEN <<>>
    ELSE LET o == Outstanding(t, n - 1)
             c == calls[n]
         IN  IF c.type # t THEN o
             ELSE IF c.ret.some THEN Append(o, c.ret.val)
             ELSE IF o = <<>> THEN o
             ELSE SubSeq(o, 1, Len(o) - 1)

\* The most locals of type t that were pushed and not popped at one time.
RECURSIVE MaxDepth(_, _)
MaxDepth(t, n) ==
    IF n = 0 THEN 0
    ELSE LET d == Len(Outstanding(t, n))
             m == MaxDepth(t, n - 1)
         IN  IF d > m THEN d ELSE m

\* The number of locals of type t declared in the LocalsManager.
Declared(t) ==
    Cardinality({i \in 1..Len(scratch.locals_builder) : scratch.locals_builder[i] = t})

\* C25: push_<t> returns the local at position idx_t of the pool of t and
\* leaves idx_t one higher; a local of type t is declared only when the
\* pool has no entry at idx_t, so that a push right after a pop of the same
\* type returns the local that the pop released, and the locals declared
\* for t are as many as the highest value idx_t has had.
C25_PushReuses ==
    LET n == Len(calls)
    IN  /\ \A t \in ValTypes :
              /\ scratch[IdxField(t)] = Len(Outstanding(t, n))
              /\ Declared(t) = Len(scratch[BufferField(t)])
              /\ Declared(t) = MaxDepth(t, n)
        /\ (n >= 1 /\ calls[n].ret.some) =>
              LET t == calls[n].type
              IN  calls[n].ret.val = scratch[BufferField(t)][scratch[IdxField(t)]]
        /\ \A i \in 1..(n - 1) :
              (/\ ~calls[i].ret.some
               /\ calls[i + 1].ret.some
               /\ calls[i + 1].type = calls[i].type
               /\ Outstanding(calls[i].type, i - 1) # <<>>) =>
                  LET o == Outstanding(calls[i].type, i - 1)
                  IN  calls[i + 1].ret.val = o[Len(o)]

\* Two i32 locals were pushed, the second was popped and a third push
\* returned it again: two locals are declared, not three.
C25_Witness ==
    /\ [i \in 1..Len(calls) |-> calls[i].fn] =
          <<"push_i32", "push_i32", "pop_i32", "push_i32">>
    /\ calls[4].ret = calls[2].ret
    /\ calls[2].ret # calls[1].ret
    /\ Declared("I32") = 2
    /\ scratch.i32_idx = 2

\* The locals that are pushed and not popped, of the four pools together.
AllOutstanding ==
    Outstanding("I32", Len(calls)) \o Outstanding("I64", Len(calls))
        \o Outstanding("F32", Len(calls)) \o Outstanding("F64", Len(calls))

\* The counter of every pool is within its buffer, and the locals that the
\* calls returned and that are not popped yet are the first idx entries of
\* their pool and differ from one another, in all four pools.
PoolsInBounds ==
    scope # "panic" =>
        /\ \A t \in ValTypes :
              /\ 0 <= scratch[IdxField(t)]
              /\ scratch[IdxField(t)] <= Len(scratch[BufferField(t)])
              /\ Outstanding(t, Len(calls)) =
                    SubSeq(scratch[BufferField(t)], 1, scratch[IdxField(t)])
        /\ \A i, j \in 1..Len(AllOutstanding) :
              i # j => AllOutstanding[i] # AllOutstanding[j]

\* A step leaves every buffer with the entries it had, in their places.
BuffersKeep ==
    \A t \in ValTypes :
        /\ Len(scratch'[BufferField(t)]) >= Len(scratch[BufferField(t)])
        /\ SubSeq(scratch'[BufferField(t)], 1, Len(scratch[BufferField(t)]))
              = scratch[BufferField(t)]

\* C28: as long as no pop has failed its assertion, every pool has
\* 0 <= idx_t <= len(buffer_t), so that buffer[idx] in a push is within the
\* buffer; no buffer ever loses an entry; and, LocalsManager.add returning a
\* new index each time, the locals pushed and not yet popped are pairwise
\* distinct across the four pools.
C28_PoolInvariant == [](PoolsInBounds) /\ [][BuffersKeep]_vars

\* Locals of two types are out at once, after one local was popped and
\* pushed again: three distinct locals are outstanding and the i32 pool is
\* used to its end.
C28_Witness ==
    /\ [i \in 1..Len(calls) |-> calls[i].fn] =
          <<"push_i32", "pop_i32", "push_i32", "push_f64">>
    /\ scope = "open"
    /\ scratch.i32_idx = Len(scratch.i32_buffer)
    /\ Len(AllOutstanding) = 2
    /\ AllOutstanding[1] # AllOutstanding[2]

---------------------------------------------------------------------------
(* Properties of the entry points, under SpecPipe.                         *)

Ran(name) == \E i \in 1..Len(ran) : ran[i].stage = name
Failed(name) == \E i \in 1..Len(ran) : ran[i].stage = name /\ ~ran[i].ok

\* C19: when the front-end reports an error, compile returns an empty byte
\* array and neither the back-end nor the serializer has run; when the
\* front-end succeeds, what compile returns is the serialized module, which
\* begins with the eight header bytes and so is not empty.
C19_CompileResult ==
    entry = "compile" =>
        /\ Failed("run_frontend") =>
              /\ result.returned = Some(<<>>)
              /\ ~Ran("run_backend")
              /\ ~Ran("wasm_serialize")
              /\ receiver = <<>>
        /\ (result.returned.some /\ ~Failed("run_frontend")) =>
              /\ [i \in 1..Len(ran) |-> ran[i].stage] =
                    <<"run_frontend", "run_backend", "wasm_serialize">>
              /\ result.returned.val = receiver
              /\ ReadSections(SubSeq(result.returned.val, 9, Len(result.returned.val))).ok
              /\ Len(result.returned.val) >= 8
              /\ SubSeq(result.returned.val, 1, 8) = Header

\* compile has returned an empty array, and has returned a module with an
\* export section.
C19_Witness ==
    /\ entry = "compile"
    /\ pc = "returned"
    /\ ~Failed("run_frontend")
    /\ Len(result.returned.val) > 8
    /\ module.export_section.content # <<>>

\* compile has returned after the front-end failed.
C19_WitnessErr ==
    /\ entry = "compile"
    /\ pc = "returned"
    /\ Failed("run_frontend")

\* C20: the process of the CLI ends with exit code 0 when compilation
\* succeeded, and with another exit code when parse_imports or run_frontend
\* returned an error.
C20_ExitCode ==
    (entry = "main" /\ result.exit_code.some) =>
        /\ (\A i \in 1..Len(ran) : ran[i].ok) => result.exit_code.val = 0
        /\ (Failed("parse_imports") \/ Failed("run_frontend")) => result.exit_code.val # 0

\* What main does with an error of the front-end: nothing later runs,
\* out.wasm is not written, and the exit code is 0; the exit code is not 0
\* only after a panic.
ExitCodeOfMain ==
    (entry = "main" /\ result.exit_code.some) =>
        /\ (Failed("parse_imports") \/ Failed("run_frontend")) =>
              /\ result.exit_code.val = 0
              /\ ~Ran("run_backend")
              /\ result.out_wasm = None
        /\ result.exit_code.val # 0 <=>
              (Failed("stdin_read") \/ Failed("wasm_serialize")
                 \/ Failed("create") \/ Failed("write_all"))


\* The stages of an entry point, in the order of its code.
StageOrder(e) ==
    IF e = "main"
    THEN <<"stdin_read", "parse_imports", "run_frontend", "run_backend",
           "wasm_serialize", "create", "write_all">>
    ELSE <<"run_frontend", "run_backend", "wasm_serialize">>

\* C26: the stages run one after the other in the order of the code, each
\* only after the one before it has returned without an error: in main,
\* run_frontend after parse_imports, run_backend after run_frontend,
\* wasm_serialize after run_backend, and out.wasm is created and written
\* only after wasm_serialize has finished; once parse_imports or
\* run_frontend has failed no later stage runs and out.wasm is not written.
C26_StagesInOrder ==
    entry \in {"compile", "main"} =>
        /\ Len(ran) <= Len(StageOrder(entry))
        /\ [i \in 1..Len(ran) |-> ran[i].stage] = SubSeq(StageOrder(entry), 1, Len(ran))
        /\ \A i \in 1..(Len(ran) - 1) : ran[i].ok
        /\ result.out_wasm.some =>
              \E i \in 1..Len(ran) : ran[i] = Stage("wasm_serialize", TRUE)
        /\ (Failed("parse_imports") \/ Failed("run_frontend")) =>
              /\ result.out_wasm = None
              /\ receiver = <<>>
              /\ ~Ran("run_backend")

\* main has ended after run_frontend returned an error: parse_imports had
\* returned Ok, nothing ran after run_frontend and there is no out.wasm.
C26_Witness ==
    /\ entry = "main"
    /\ pc = "exited"
    /\ ran = <<Stage("stdin_read", TRUE), Stage("parse_imports", TRUE),
               Stage("run_frontend", FALSE)>>
    /\ result.out_wasm = None

\* main has ended after all seven stages, with the module in out.wasm.
C26_WitnessWritten ==
    /\ entry = "main"
    /\ pc = "exited"
    /\ Len(ran) = 7
    /\ \A i \in 1..7 : ran[i].ok
    /\ result.out_wasm = Some(receiver)
    /\ Len(receiver) > 8

============================================================================
